---- MODULE Spec2Model ----
(***************************************************************************)
(* A model of the teldrive uploader's upload engine                        *)
(* (src/pkg/services/upload.go) and of the parts of the progress bar       *)
(* (package pb) that the engine drives.                                    *)
(*                                                                         *)
(* Seven specifications share the module:                                    *)
(*   Spec      one file job, UploadService.UploadFile: the scheduling      *)
(*             task, its part tasks, the barrier task, the worker          *)
(*             semaphore, the descriptor channel, the WaitGroup and the    *)
(*             file's bar;                                                 *)
(*   SpecRetry one server call and its attempts under the pacer;           *)
(*   SpecDir   one directory walk, UploadService.UploadFilesInDirectory:   *)
(*             the walk, the transfer semaphore and the file tasks, each   *)
(*             file job taken phase by phase;                              *)
(*   SpecMain  one run of main: the flags, the remote mkdir, the choice    *)
(*             between a directory and a single file, the exit status;     *)
(*   SpecName  the part tasks of one file job and the partName variable    *)
(*             they share;                                                 *)
(*   SpecProgress one directory upload seen from the progress aggregator   *)
(*             (pb.Progress): the pre-pass, the walk, the file jobs moving *)
(*             their bars, and the renders;                                *)
(*   SpecRender the aggregator under concurrency: the file tasks adding    *)
(*             their bars, and the renders of the ticker and of the log    *)
(*             writes, each taken step by step.                            *)
(* The HTTP server, the file system and the scheduler are the environment: *)
(* their answers are drawn from small sets.                                *)
(***************************************************************************)
EXTENDS Integers, Sequences, FiniteSets, TLC

----------------------------------------------------------------------------
(* Bounds of the model. *)

\* SpecProgress: entries per directory, file sizes in bytes (the part size
\* is one byte there), clock readings
MaxTree == 2
MaxBytes == 2
MaxClock == 1

\* SpecRender: the times the ticker fires
MaxTicks == 1

\* SpecName: channel identifiers 1..MaxChannel
MaxChannel == 2

\* file sizes 0..MaxFileSize
MaxFileSize == 4
\* PART_SIZE in MinPartSize..MaxPartSize
MinPartSize == 2
MaxPartSize == 3
\* WORKERS in 1..MaxWorkers
MaxWorkers == 2
\* the server's resumable state lists at most MaxResume parts
MaxResume == 1
\* a directory of at most MaxEntries entries
MaxEntries == 3
\* TRANSFERS in 1..MaxTransfers
MaxTransfers == 2

----------------------------------------------------------------------------
(* HTTP answers.  A positive number is an HTTP status; NetRetry and        *)
(* NetFatal are transport errors without a response (a retryable one, such *)
(* as a connection reset, and one that is not, such as a cancelled         *)
(* context).                                                               *)

NetFatal == 0 - 1
NetRetry == 0 - 2
\* no attempt has been answered yet
NoAnswer == 0 - 3

retryErrorCodes == {429, 500, 502, 503, 504, 509}

Statuses == {200, 201, 404, NetRetry, NetFatal} \cup retryErrorCodes

\* rest.Client.CallJSON returns a nil error exactly for a 2xx response.
CallErr(r) == ~(r >= 200 /\ r <= 299)

\* shouldRetry: a retryable transport error, or a status of retryErrorCodes.
shouldRetry(r) == r = NetRetry \/ r \in retryErrorCodes

\* fs.NewPacer: the pacer makes at most LowLevelRetries attempts of a call.
LowLevelRetries == 10

\* pacer.Call: after `made` attempts, the last answered r: is another made?
PacerRetries(r, made) == shouldRetry(r) /\ made < LowLevelRetries

----------------------------------------------------------------------------
VARIABLES
  \* inputs of the file job
  fileSize, partSize, numWorkers, serverState,
  \* the scheduling task (the body of UploadFile)
  pc, existingParts, loopI, parts, result,
  \* the barrier task and the part tasks
  barrierPc, taskPc, taskDesc,
  \* sync.WaitGroup, worker semaphore, descriptor channel
  wgCount, concurrentWorkers, uploadedParts, chanClosed,
  \* the file's bar
  bar,
  \* what the server and the process saw
  probeItems, probeNotFound, posts, barAdv, resumeAsked, resumeErr, commitSent, manifest, commitOk,
  deleteSent, crashed,
  \* one server call and its attempts (SpecRetry)
  callKind, callPc, made, lastAnswer, backoffs,
  \* one directory walk (SpecDir): the inputs, the walk, the file tasks, the
  \* transfer semaphore, the service's WaitGroup, the process
  entries, numTransfers, deleteAfterUpload, walkPc, walkI, jobPc, jobErr,
  concurrentFiles, uwgCount, process,
  \* per file of the walk, what happened to it in this run: its commit POST
  \* succeeded ("committed"), os.Remove took the local file away ("removed")
  jobLog,
  \* one run of main (SpecMain): the flags, what -path names, the
  \* orchestrator's position, the answer to its mkdir, the server calls made,
  \* the result of the single file's job, the local file, the exit status
  sourcePath, destDir, sourceKind, mainPc, mkdirAnswer, netCalls, fileJob,
  localFile, exitStatus,
  \* the naming of one file's parts (SpecName): the number of parts, the
  \* worker slots, the randomisation switch, the part tasks, the partName
  \* variable they share, the name each part POST carried
  nameTotal, nameWorkers, randomisePart, namePc, partName, sentName,
  \* and its channel and encryption parameters: the configured u.channelID
  \* and u.encryptFiles, the parts of the resumable state the job fetched
  \* (uploadFile.Parts), the parameters each part POST carried and those of
  \* the commit payload
  channelID, encryptFiles, uploadFile, sentParams, filePayload,
  \* one directory upload seen from the aggregator (SpecProgress): the
  \* source tree, the entries the walk has still to visit, the file jobs it
  \* dispatched (each with its bar), the aggregator's bars list and state,
  \* main's position, the clock, the last two renders and the number of
  \* renders since the last call that changed a bar or the accounting,
  \* whether the walk passed over part of the tree
  tree, todo, jobs, Bars, state, progPc, now, shown, prior, streak, skipped,
  \* the aggregator under concurrency (SpecRender): whether the logger
  \* writes to the aggregator (config.Debug), p.Bars, p.state, the global
  \* nlines, the ticker and the file tasks with the locals of their AddBar
  \* and of their render, the bar of each file task, the last write to the
  \* terminal, the number of lines the write before it emitted, the
  \* number of times the ticker fired
  debug, pBars, pState, nlines, task, barOf, written, before, ticks,
  stopPc

fileVars == <<fileSize, partSize, numWorkers, serverState,
              pc, existingParts, loopI, parts, result,
              barrierPc, taskPc, taskDesc,
              wgCount, concurrentWorkers, uploadedParts, chanClosed,
              bar, probeItems, probeNotFound, posts, barAdv, resumeAsked, resumeErr, commitSent, manifest,
              commitOk, deleteSent, crashed>>

retryVars == <<callKind, callPc, made, lastAnswer, backoffs>>

dirVars == <<entries, numTransfers, deleteAfterUpload, walkPc, walkI, jobPc,
             jobErr, jobLog, concurrentFiles, uwgCount, process>>

orchVars == <<sourcePath, destDir, sourceKind, mainPc, mkdirAnswer, netCalls,
              fileJob, localFile, exitStatus>>

nameVars == <<nameTotal, nameWorkers, randomisePart, namePc, partName,
              sentName, channelID, encryptFiles, uploadFile, sentParams,
              filePayload>>

progVars == <<tree, todo, jobs, Bars, state, progPc, now, shown, prior,
              streak, skipped>>

renderVars == <<debug, pBars, pState, nlines, task, barOf, written, before,
                ticks, stopPc>>

vars == <<fileVars, retryVars, dirVars, orchVars, nameVars, progVars,
          renderVars>>

\* the variables of the other specifications, at rest
otherVars == <<retryVars, dirVars, orchVars, nameVars, progVars,
                 renderVars>>
notRetryVars == <<fileVars, dirVars, orchVars, nameVars, progVars,
                 renderVars>>
notDirVars == <<fileVars, retryVars, orchVars, nameVars, progVars,
                 renderVars>>
notOrchVars == <<fileVars, retryVars, dirVars, nameVars, progVars,
                 renderVars>>
notNameVars == <<fileVars, retryVars, dirVars, orchVars, progVars,
                 renderVars>>
notProgVars == <<fileVars, retryVars, dirVars, orchVars, nameVars,
                 renderVars>>
notRenderVars == <<fileVars, retryVars, dirVars, orchVars, nameVars,
                   progVars>>

NoCall ==
  /\ callKind = "exists" /\ callPc = "idle" /\ made = 0
  /\ lastAnswer = NoAnswer /\ backoffs = 0

\* the exit status of a process that has not exited
NotExited == 0 - 1

NoMain ==
  /\ sourcePath = "" /\ destDir = "" /\ sourceKind = "missing"
  /\ mainPc = "idle" /\ mkdirAnswer = NoAnswer /\ netCalls = 0
  /\ fileJob = "none" /\ localFile = "present" /\ exitStatus = NotExited

\* the value of a part name that was never sent
NoName == <<"none">>

\* the parameters of a request that was never sent
NoParams == [channelId |-> 0, encrypted |-> FALSE]

NoNaming ==
  /\ nameTotal = 1 /\ nameWorkers = 1 /\ randomisePart = FALSE
  /\ namePc = <<>> /\ partName = NoName /\ sentName = <<>>
  /\ channelID = 1 /\ encryptFiles = FALSE /\ uploadFile = <<>>
  /\ sentParams = <<>> /\ filePayload = NoParams

\* progressState as NewProgress leaves it; errorBytes, which addError adds
\* to and nothing reads, is left out
NewProgress ==
  [totalSize |-> 0, totalTransfers |-> 0, existing |-> 0, existingBytes |-> 0,
   uploaded |-> 0, uploadedBytes |-> 0, error |-> 0, totalAverageRate |-> 0]

\* what has been rendered before the first render
NoRender == [at |-> 0, stats |-> <<>>, bars |-> <<>>, counters |-> <<>>]

NoProgress ==
  /\ tree = <<>> /\ todo = <<>> /\ jobs = <<>> /\ Bars = <<>>
  /\ state = NewProgress /\ progPc = "idle" /\ now = 0
  /\ shown = NoRender /\ prior = NoRender /\ streak = 0 /\ skipped = FALSE

\* nothing written to the terminal yet
NoWrite == [erased |-> 0, emitted |-> 0, stats |-> <<>>]

NoRendering ==
  /\ debug = FALSE /\ pBars = <<>> /\ pState = NewProgress /\ nlines = 0
  /\ task = <<>> /\ barOf = <<>> /\ written = NoWrite /\ before = 0
  /\ ticks = 0 /\ stopPc = "idle"

NoWalk ==
  /\ entries = <<>> /\ numTransfers = 1 /\ deleteAfterUpload = FALSE
  /\ walkPc = "idle" /\ walkI = 0 /\ jobPc = <<>> /\ jobErr = <<>>
  /\ jobLog = <<>>
  /\ concurrentFiles = 0 /\ uwgCount = 0 /\ process = "running"

----------------------------------------------------------------------------
(* Pure helpers of UploadFile. *)

FloorParts(S, P) == S \div P

\* lines 190-193: totalParts := fileSize / partSize, plus one on a remainder
TotalParts(S, P) == (S \div P) + (IF S % P # 0 THEN 1 ELSE 0)

totalParts == TotalParts(fileSize, partSize)

Ordinals == 1 .. totalParts

\* lines 245-249 and 281: the byte range of ordinal k
PartStart(k) == (k - 1) * partSize
PartEnd(k) == IF PartStart(k) + partSize > fileSize THEN fileSize
              ELSE PartStart(k) + partSize
ContentLength(k) == PartEnd(k) - PartStart(k)

\* the part id the server assigns to a part it persisted
PersistedId(k) == 100 + k

\* a part descriptor (types.PartFile): ordinal, stored part id, byte length
PartFile(no, id, size) == [PartNo |-> no, PartId |-> id, Size |-> size]

\* the ordinals the server may list: those of the largest job
ListedOrdinals == 1 .. TotalParts(MaxFileSize, MinPartSize)

PartFiles == {PartFile(no, id, size) :
                no \in ListedOrdinals,
                id \in {0} \cup {PersistedId(k) : k \in ListedOrdinals},
                size \in {MinPartSize, MaxPartSize}}

\* The server's resumable state (types.UploadFile.Parts): an ordered set of
\* part descriptors, at most one per ordinal, ascending by ordinal.  A
\* listed part has id 0 when the server recorded it without persisting it.
ServerStates ==
  {s \in UNION {[1 .. n -> PartFiles] : n \in 0 .. MaxResume} :
     /\ \A i \in 1 .. Len(s) : s[i].PartId \in {0, PersistedId(s[i].PartNo)}
     /\ \A i \in 1 .. Len(s) - 1 : s[i].PartNo < s[i + 1].PartNo}

RECURSIVE BuildExisting(_, _)
\* lines 181-184: index the returned parts by ordinal, a later entry
\* replacing an earlier one with the same ordinal
BuildExisting(list, m) ==
  IF list = <<>> THEN m
  ELSE LET part == Head(list)
           m2 == [k \in DOMAIN m \cup {part.PartNo} |->
                    IF k = part.PartNo THEN part ELSE m[k]]
       IN BuildExisting(Tail(list), m2)

EmptyMap == [k \in {} |-> 0]

\* types.FilePart, an entry of the commit manifest
FilePart(d) == [ID |-> d.PartId, PartNo |-> d.PartNo]

RECURSIVE InsertByPartNo(_, _)
InsertByPartNo(p, sorted) ==
  IF sorted = <<>> THEN <<p>>
  ELSE IF p.PartNo < Head(sorted).PartNo THEN <<p>> \o sorted
       ELSE <<Head(sorted)>> \o InsertByPartNo(p, Tail(sorted))

RECURSIVE SortByPartNoFrom(_, _)
SortByPartNoFrom(list, acc) ==
  IF list = <<>> THEN acc
  ELSE SortByPartNoFrom(Tail(list), InsertByPartNo(Head(list), acc))

SortNothing(list) == list

\* lines 333-335: sort.Slice(parts, PartNo ascending)
SortByPartNo(list) == SortByPartNoFrom(list, <<>>)

----------------------------------------------------------------------------
(* The bar (package pb): the fields the engine moves. *)

NewBar == [currentBytes |-> 0, currentNum |-> 0, exit |-> FALSE,
           completed |-> FALSE]

\* Bar.IncrInt64 with config.max = max, ignoreLength off
IncrInt64(b, num, max) ==
  IF b.exit THEN b
  ELSE IF max = 0 THEN b
  ELSE [b EXCEPT !.currentNum = IF b.currentNum < max THEN b.currentNum + num
                                ELSE b.currentNum,
                 !.currentBytes = b.currentBytes + num]

\* Bar.Finish: currentNum = max, then IncrInt(0)
Finish(b, max) == IncrInt64([b EXCEPT !.currentNum = max], 0, max)

\* Bar.Close
Close(b) == [b EXCEPT !.completed = TRUE]

\* Bar.Abort
Abort(b) == [b EXCEPT !.exit = TRUE]

----------------------------------------------------------------------------
(* One file job: UploadService.UploadFile. *)

\* no file job is running (the other specifications)
NoFile ==
  /\ fileSize = 0 /\ partSize = MinPartSize /\ numWorkers = 1
  /\ serverState = <<>> /\ pc = "idle" /\ existingParts = EmptyMap
  /\ loopI = 0 /\ parts = <<>> /\ result = "running" /\ barrierPc = "none"
  /\ taskPc = <<>> /\ taskDesc = <<>> /\ wgCount = 0
  /\ concurrentWorkers = 0 /\ uploadedParts = <<>> /\ chanClosed = FALSE
  /\ bar = NewBar /\ probeItems = FALSE /\ probeNotFound = FALSE /\ posts = <<>> /\ barAdv = <<>>
  /\ resumeAsked = FALSE /\ resumeErr = FALSE /\ commitSent = FALSE /\ manifest = <<>>
  /\ commitOk = FALSE /\ deleteSent = FALSE /\ crashed = "no"

Init ==
  /\ fileSize \in 0 .. MaxFileSize
  /\ partSize \in MinPartSize .. MaxPartSize
  /\ numWorkers \in 1 .. MaxWorkers
  /\ serverState \in ServerStates
  /\ pc = "open"
  /\ existingParts = EmptyMap
  /\ loopI = 0
  /\ parts = <<>>
  /\ result = "running"
  /\ barrierPc = "none"
  /\ taskPc = [k \in 1 .. TotalParts(fileSize, partSize) |-> "idle"]
  /\ taskDesc = [k \in 1 .. TotalParts(fileSize, partSize) |-> PartFile(k, 0, 0)]
  /\ wgCount = 0
  /\ concurrentWorkers = 0
  /\ uploadedParts = <<>>
  /\ chanClosed = FALSE
  /\ bar = NewBar
  /\ probeItems = FALSE
  /\ probeNotFound = FALSE
  /\ posts = [k \in 1 .. TotalParts(fileSize, partSize) |-> 0]
  /\ barAdv = [k \in 1 .. TotalParts(fileSize, partSize) |-> <<>>]
  /\ resumeAsked = FALSE
  /\ resumeErr = FALSE
  /\ commitSent = FALSE
  /\ manifest = <<>>
  /\ commitOk = FALSE
  /\ deleteSent = FALSE
  /\ crashed = "no"
  /\ NoCall /\ NoWalk /\ NoMain /\ NoNaming /\ NoProgress /\ NoRendering

Alive == crashed = "no"

inputVars == <<fileSize, partSize, numWorkers, serverState>>
taskVars == <<barrierPc, taskPc, taskDesc>>
syncVars == <<wgCount, concurrentWorkers, uploadedParts, chanClosed>>
logVars == <<probeItems, probeNotFound, posts, barAdv, resumeAsked, resumeErr, commitSent, manifest,
             commitOk, deleteSent>>

\* lines 108-146: open the file and read its 512-byte prefix (either failing
\* ends the process in logger.Fatal; reading an empty file fails with EOF),
\* create the bar and register it.
OpenFile ==
  /\ Alive /\ pc = "open"
  /\ \E ok \in BOOLEAN :
       IF ok /\ fileSize > 0
       THEN /\ pc' = "probe"
            /\ UNCHANGED crashed
       ELSE /\ crashed' = "fatal"
            /\ UNCHANGED pc
  /\ UNCHANGED <<otherVars, inputVars, existingParts, loopI,
                 parts, result, taskVars, syncVars, bar, logVars>>

\* The scheduling task's server calls go through pacer.Call, which returns
\* the answer of its last attempt (see the retry loop below): r is that
\* answer, items tells whether a 2xx body lists any item.

ExistsNever(r, items) == FALSE

\* line 100: resp.StatusCode != 404 && len(info.Files) > 0
Exists(r, items) == r # 404 /\ items

\* lines 78-105 (checkFileExists) and 148-158: the existence probe.  An
\* error aborts the bar and is returned; a listed item ends the job with
\* success and no transfer; otherwise the job goes on, to the resumable-state
\* GET when partSize < fileSize
Probe ==
  /\ Alive /\ pc = "probe"
  /\ \E r \in Statuses, items \in BOOLEAN :
       /\ (CallErr(r) => ~items)
       /\ probeItems' = items
       /\ probeNotFound' = (r = 404)
       /\ IF CallErr(r)
          THEN /\ bar' = Abort(bar)
               /\ result' = "probe_error"
               /\ pc' = "return"
          ELSE IF Exists(r, items)
          THEN /\ result' = "skipped"
               /\ pc' = "return"
               /\ UNCHANGED bar
          ELSE /\ pc' = IF partSize < fileSize THEN "resume" ELSE "prepare"
               /\ UNCHANGED <<bar, result>>
  /\ UNCHANGED <<otherVars, inputVars, existingParts, loopI, parts, taskVars, syncVars,
                 posts, barAdv, resumeAsked, resumeErr, commitSent, manifest, commitOk,
                 deleteSent, crashed>>

IndexAnyway(r, listed) == BuildExisting(listed, EmptyMap)

\* lines 177-185: the map is built only when the GET returned no error
IndexParts(r, listed) ==
  IF CallErr(r) THEN EmptyMap ELSE BuildExisting(listed, EmptyMap)

\* lines 170-186: GET /api/uploads/<fingerprint>; on success the listed
\* parts are indexed by ordinal, on failure the job goes on with no map
ResumeGet ==
  /\ Alive /\ pc = "resume"
  /\ resumeAsked' = TRUE
  /\ \E r \in Statuses :
       /\ resumeErr' = CallErr(r)
       /\ existingParts' = IndexParts(r, serverState)
  /\ pc' = "prepare"
  /\ UNCHANGED <<otherVars, inputVars, loopI, parts, result, taskVars, syncVars, bar,
                 probeItems, probeNotFound, posts, barAdv, commitSent, manifest, commitOk,
                 deleteSent, crashed>>

\* lines 188-242: the WaitGroup, the channel of capacity totalParts, the
\* worker semaphore; the barrier task is started before any part task
Prepare ==
  /\ Alive /\ pc = "prepare"
  /\ barrierPc' = "wait"
  /\ pc' = "loop"
  /\ UNCHANGED <<otherVars, inputVars, existingParts, loopI,
                 parts, result, taskPc, taskDesc, syncVars, bar,
                 logVars, crashed>>

\* lines 244-251: the next ordinal's wg.Add(1)
LoopAdd ==
  /\ Alive /\ pc = "loop" /\ loopI < totalParts
  /\ wgCount' = wgCount + 1
  /\ pc' = "acquire"
  /\ UNCHANGED <<otherVars, inputVars, existingParts, loopI,
                 parts, result, taskVars, concurrentWorkers, uploadedParts,
                 chanClosed, bar, logVars, crashed>>

AcquireFreely(held, cap) == TRUE

\* line 252: a send on the semaphore channel goes through when it has room
CanAcquire(held, cap) == held < cap

PostAlways(k, existing) == TRUE

\* line 266: a part POST is sent only for an ordinal the map does not list
NeedsPost(k, existing) == k \notin DOMAIN existing

\* lines 260-303, the part task up to its first communication: open the
\* file; a listed ordinal goes to publish its recorded descriptor; otherwise
\* seek and send the part POST.  A failed open or seek ends the task.
TaskStart(k, opened, sought) ==
  IF ~opened
  THEN /\ taskPc' = [taskPc EXCEPT ![k] = "release"]
       /\ UNCHANGED <<posts, taskDesc>>
  ELSE IF ~NeedsPost(k, existingParts)
  THEN /\ taskPc' = [taskPc EXCEPT ![k] = "pubx"]
       /\ taskDesc' = [taskDesc EXCEPT ![k] = existingParts[k]]
       /\ UNCHANGED posts
  ELSE IF ~sought
  THEN /\ taskPc' = [taskPc EXCEPT ![k] = "release"]
       /\ UNCHANGED <<posts, taskDesc>>
  ELSE /\ taskPc' = [taskPc EXCEPT ![k] = "post"]
       /\ posts' = [posts EXCEPT ![k] = posts[k] + 1]
       /\ UNCHANGED taskDesc

FirstOrdinal(i) == 1

\* lines 244 and 254-256: round i of the loop (from 0) starts the part task
\* with partNumber i, whose ordinal is partNumber + 1
NextOrdinal(i) == i + 1

\* lines 252-254 and 244: take a worker slot, then start the part task of
\* the next ordinal; after totalParts rounds the loop ends and the task goes
\* on to drain the channel
LoopAcquire ==
  /\ Alive /\ pc = "acquire"
  /\ CanAcquire(concurrentWorkers, numWorkers)
  /\ concurrentWorkers' = concurrentWorkers + 1
  /\ \E opened \in BOOLEAN, sought \in BOOLEAN :
       TaskStart(NextOrdinal(loopI), opened, sought)
  /\ loopI' = loopI + 1
  /\ pc' = IF loopI + 1 = totalParts THEN "drain" ELSE "loop"
  /\ UNCHANGED <<otherVars, inputVars, existingParts, parts, result, barrierPc,
                 wgCount, uploadedParts, chanClosed, bar, probeItems, probeNotFound, barAdv,
                 resumeAsked, resumeErr, commitSent, manifest, commitOk, deleteSent,
                 crashed>>

----------------------------------------------------------------------------
(* The part task of ordinal k: lines 254-316. *)

mainVars == <<pc, existingParts, loopI, parts, result>>

OneSlot(total) == 1

\* line 195: make(chan types.PartFile, totalParts)
ChannelCap(total) == total

\* a send on the descriptor channel: it panics on a closed channel and
\* waits while the buffer (capacity totalParts) is full
Send(k, d, next) ==
  /\ chanClosed \/ Len(uploadedParts) < ChannelCap(totalParts)
  /\ IF chanClosed
     THEN /\ crashed' = "panic"
          /\ UNCHANGED <<uploadedParts, taskPc>>
     ELSE /\ uploadedParts' = Append(uploadedParts, d)
          /\ taskPc' = [taskPc EXCEPT ![k] = next]
          /\ UNCHANGED crashed

\* line 267: uploadedParts <- existing
TaskPublishExisting(k) ==
  /\ Alive /\ taskPc[k] = "pubx"
  /\ Send(k, taskDesc[k], "incr")
  /\ UNCHANGED <<otherVars, inputVars, mainVars, barrierPc, taskDesc,
                 wgCount, concurrentWorkers, chanClosed, bar, logVars>>

\* lines 268-269: bar.IncrInt64(existing.Size)
TaskIncr(k) ==
  /\ Alive /\ taskPc[k] = "incr"
  /\ bar' = IncrInt64(bar, taskDesc[k].Size, fileSize)
  /\ barAdv' = [barAdv EXCEPT
                  ![k] = Append(@, bar'.currentBytes - bar.currentBytes)]
  /\ taskPc' = [taskPc EXCEPT ![k] = "release"]
  /\ UNCHANGED <<otherVars, inputVars, mainVars, barrierPc, taskDesc,
                 syncVars, probeItems, probeNotFound, posts, resumeAsked, resumeErr, commitSent,
                 manifest, commitOk, deleteSent, crashed>>

\* line 312: resp.StatusCode == 201
Published(r) == r = 201

\* lines 279-315: the POST returns.  The proxy reader has advanced the bar
\* by the bytes the transport read from the body: all of them when the call
\* succeeded.  An error ends the task; a 2xx answer is decoded into the
\* task's descriptor, and only a 201 has it published.
TaskPostReturn(k) ==
  /\ Alive /\ taskPc[k] = "post"
  /\ \E r \in Statuses, id \in {0, PersistedId(k)},
        n \in {0, ContentLength(k)} :
       /\ (~CallErr(r) => n = ContentLength(k))
       /\ (CallErr(r) => id = 0)
       /\ bar' = IncrInt64(bar, n, fileSize)
       /\ IF CallErr(r)
          THEN /\ taskPc' = [taskPc EXCEPT ![k] = "release"]
               /\ UNCHANGED taskDesc
          ELSE /\ taskDesc' = [taskDesc EXCEPT
                                 ![k] = PartFile(k, id, ContentLength(k))]
               /\ taskPc' = [taskPc EXCEPT
                               ![k] = IF Published(r) THEN "publish"
                                      ELSE "release"]
  /\ UNCHANGED <<otherVars, inputVars, mainVars, barrierPc, syncVars, logVars, crashed>>

\* lines 313-314: uploadedParts <- partFile
TaskPublish(k) ==
  /\ Alive /\ taskPc[k] = "publish"
  /\ Send(k, taskDesc[k], "release")
  /\ UNCHANGED <<otherVars, inputVars, mainVars, barrierPc, taskDesc, wgCount,
                 concurrentWorkers, chanClosed, bar, logVars>>

\* lines 256-258: the deferred release of the worker slot
TaskRelease(k) ==
  /\ Alive /\ taskPc[k] = "release"
  /\ concurrentWorkers' = concurrentWorkers - 1
  /\ taskPc' = [taskPc EXCEPT ![k] = "wgdone"]
  /\ UNCHANGED <<otherVars, inputVars, mainVars, barrierPc, taskDesc, wgCount,
                 uploadedParts, chanClosed, bar, logVars, crashed>>

\* line 255: the deferred wg.Done; the counter reaching zero releases a
\* waiter blocked in wg.Wait
TaskDone(k) ==
  /\ Alive /\ taskPc[k] = "wgdone"
  /\ wgCount' = wgCount - 1
  /\ taskPc' = [taskPc EXCEPT ![k] = "exited"]
  /\ barrierPc' = IF wgCount = 1 /\ barrierPc = "blocked" THEN "woken"
                  ELSE barrierPc
  /\ UNCHANGED <<otherVars, inputVars, mainVars, taskDesc, concurrentWorkers,
                 uploadedParts, chanClosed, bar, logVars, crashed>>

----------------------------------------------------------------------------
(* The barrier task: lines 236-240. *)

\* sync.WaitGroup.Wait returns at once when the counter is zero
WaitReturns(count) == count = 0

\* line 237: wg.Wait() is entered: it returns when the counter is zero at
\* that moment (no Add has happened yet, or every task added so far is
\* done), and blocks otherwise
BarrierWait ==
  /\ Alive /\ barrierPc = "wait"
  /\ barrierPc' = IF WaitReturns(wgCount) THEN "close" ELSE "blocked"
  /\ UNCHANGED <<otherVars, inputVars, mainVars, taskPc, taskDesc, syncVars,
                 bar, logVars, crashed>>

\* line 237: the released waiter resumes; sync.WaitGroup panics ("WaitGroup
\* is reused before previous Wait has returned") when an Add has raised the
\* counter again in between
BarrierWake ==
  /\ Alive /\ barrierPc = "woken"
  /\ IF wgCount = 0
     THEN barrierPc' = "close" /\ UNCHANGED crashed
     ELSE crashed' = "panic" /\ UNCHANGED barrierPc
  /\ UNCHANGED <<otherVars, inputVars, mainVars, taskPc, taskDesc, syncVars,
                 bar, logVars>>

\* line 238: close(uploadedParts)
BarrierClose ==
  /\ Alive /\ barrierPc = "close"
  /\ chanClosed' = TRUE
  /\ barrierPc' = "finish"
  /\ UNCHANGED <<otherVars, inputVars, mainVars, taskPc, taskDesc, wgCount,
                 concurrentWorkers, uploadedParts, bar, logVars, crashed>>

\* line 239: bar.Finish()
BarrierFinish ==
  /\ Alive /\ barrierPc = "finish"
  /\ bar' = Finish(bar, fileSize)
  /\ barrierPc' = "done"
  /\ UNCHANGED <<otherVars, inputVars, mainVars, taskPc, taskDesc, syncVars,
                 logVars, crashed>>

----------------------------------------------------------------------------
(* The scheduling task after the loop: lines 319-380. *)

KeepAll(d) == TRUE

\* line 321: a descriptor counts when its part id is not zero
Persisted(d) == d.PartId # 0

\* lines 320-324: receive one descriptor
DrainRecv ==
  /\ Alive /\ pc = "drain" /\ uploadedParts # <<>>
  /\ uploadedParts' = Tail(uploadedParts)
  /\ parts' = IF Persisted(Head(uploadedParts))
              THEN Append(parts, FilePart(Head(uploadedParts)))
              ELSE parts
  /\ UNCHANGED <<otherVars, inputVars, pc, existingParts, loopI,
                 result, taskVars, wgCount, concurrentWorkers, chanClosed,
                 bar, logVars, crashed>>

\* line 326: len(parts) == int(totalParts)
Complete(n, total) == n = total

\* lines 320 and 326-346: the channel is closed and empty, the range loop
\* ends; short of totalParts descriptors the bar is aborted and the job
\* fails, otherwise the parts are sorted into the manifest
DrainEnd ==
  /\ Alive /\ pc = "drain" /\ uploadedParts = <<>> /\ chanClosed
  /\ IF ~Complete(Len(parts), totalParts)
     THEN /\ bar' = Abort(bar)
          /\ result' = "incomplete"
          /\ pc' = "return"
          /\ UNCHANGED parts
     ELSE /\ parts' = SortByPartNo(parts)
          /\ pc' = "commit"
          /\ UNCHANGED <<bar, result>>
  /\ UNCHANGED <<otherVars, inputVars, existingParts, loopI,
                 taskVars, syncVars, logVars, crashed>>

CommitNeverFails(r) == FALSE

\* line 364: err != nil after the commit's pacer.Call
CommitFailed(r) == CallErr(r)

\* lines 354-366: the commit POST carrying the manifest; a failure is
\* returned
Commit ==
  /\ Alive /\ pc = "commit"
  /\ commitSent' = TRUE
  /\ manifest' = parts
  /\ \E r \in Statuses :
       /\ commitOk' = ~CallErr(r)
       /\ IF CommitFailed(r)
          THEN /\ result' = "commit_error"
               /\ pc' = "return"
          ELSE /\ pc' = "delete"
               /\ UNCHANGED result
  /\ UNCHANGED <<otherVars, inputVars, existingParts, loopI, parts, taskVars, syncVars,
                 bar, probeItems, probeNotFound, posts, barAdv, resumeAsked, resumeErr, deleteSent,
                 crashed>>

\* lines 368-379: DELETE /api/uploads/<fingerprint>; a failure is returned,
\* otherwise the job succeeded
Delete ==
  /\ Alive /\ pc = "delete"
  /\ deleteSent' = TRUE
  /\ \E r \in Statuses :
       result' = IF CallErr(r) THEN "delete_error" ELSE "ok"
  /\ pc' = "return"
  /\ UNCHANGED <<otherVars, inputVars, existingParts, loopI, parts, taskVars, syncVars,
                 bar, probeItems, probeNotFound, posts, barAdv, resumeAsked, resumeErr, commitSent,
                 manifest, commitOk, crashed>>

\* line 144: the deferred bar.Close() runs as UploadFile returns
Return ==
  /\ Alive /\ pc = "return"
  /\ bar' = Close(bar)
  /\ pc' = "done"
  /\ UNCHANGED <<otherVars, inputVars, existingParts, loopI,
                 parts, result, taskVars, syncVars, logVars, crashed>>

Next ==
  \/ OpenFile \/ Probe \/ ResumeGet \/ Prepare
  \/ LoopAdd \/ LoopAcquire
  \/ \E k \in Ordinals : TaskPublishExisting(k)
  \/ \E k \in Ordinals : TaskIncr(k)
  \/ \E k \in Ordinals : TaskPostReturn(k)
  \/ \E k \in Ordinals : TaskPublish(k)
  \/ \E k \in Ordinals : TaskRelease(k)
  \/ \E k \in Ordinals : TaskDone(k)
  \/ BarrierWait \/ BarrierWake \/ BarrierClose \/ BarrierFinish
  \/ DrainRecv \/ DrainEnd
  \/ Commit \/ Delete \/ Return

Spec == Init /\ [][Next]_vars

----------------------------------------------------------------------------
(* One server call and its attempts (SpecRetry).  Six of the seven calls   *)
(* are made inside u.pacer.Call with shouldRetry deciding; the part POST   *)
(* is a bare CallJSON.                                                     *)

CallKinds == {"exists", "resume", "part", "commit", "delete", "mkdir", "list"}

\* lines 93, 176, 359, 368, 395 and 424 call through u.pacer.Call; line 306,
\* the part POST, does not
InPacer(kind) == kind # "part"

InitRetry ==
  /\ callKind \in CallKinds
  /\ callPc = "attempt"
  /\ made = 0
  /\ lastAnswer = NoAnswer
  /\ backoffs = 0
  /\ NoFile /\ NoWalk /\ NoMain /\ NoNaming /\ NoProgress /\ NoRendering

\* one attempt: CallJSON is sent and answered r.  Inside pacer.Call the
\* answer goes to shouldRetry and a retry is another round of the pacer's
\* loop; the bare call returns whatever the answer
CallAttempt ==
  /\ callPc = "attempt"
  /\ \E r \in Statuses :
       /\ lastAnswer' = r
       /\ made' = made + 1
       /\ callPc' = IF InPacer(callKind) /\ PacerRetries(r, made + 1)
                    THEN "backoff" ELSE "returned"
  /\ UNCHANGED <<callKind, backoffs, notRetryVars>>

\* the pacer sleeps its raised interval before the next attempt
CallBackoff ==
  /\ callPc = "backoff"
  /\ backoffs' = backoffs + 1
  /\ callPc' = "attempt"
  /\ UNCHANGED <<callKind, made, lastAnswer, notRetryVars>>

NextRetry == CallAttempt \/ CallBackoff

SpecRetry == InitRetry /\ [][NextRetry]_vars

----------------------------------------------------------------------------
(* One directory walk: UploadService.UploadFilesInDirectory, as main calls *)
(* it (SpecDir).  An entry is a file the remote listing does not name      *)
(* ("new"), a file it names ("listed") or a subdirectory ("dir").  The     *)
(* file task runs UploadFile, taken here phase by phase.                   *)

EntryKinds == {"new", "listed", "dir"}

Files == 1 .. Len(entries)

InitDir ==
  /\ entries \in UNION {[1 .. n -> EntryKinds] : n \in 0 .. MaxEntries}
  /\ numTransfers \in 1 .. MaxTransfers
  /\ deleteAfterUpload \in BOOLEAN
  /\ walkPc = "start"
  /\ walkI = 0
  /\ jobPc = [f \in 1 .. Len(entries) |-> "idle"]
  /\ jobErr = [f \in 1 .. Len(entries) |-> "none"]
  /\ jobLog = [f \in 1 .. Len(entries) |-> {}]
  /\ concurrentFiles = 0
  /\ uwgCount = 0
  /\ process = "running"
  /\ NoFile /\ NoCall /\ NoMain /\ NoNaming /\ NoProgress /\ NoRendering

Up == process = "running"

dirInputs == <<entries, numTransfers, deleteAfterUpload>>

\* lines 475-487: os.ReadDir and the remote listing; either failing is
\* returned to main
WalkStart ==
  /\ Up /\ walkPc = "start"
  /\ \E read \in BOOLEAN, r \in Statuses :
       walkPc' = IF read /\ ~CallErr(r) THEN "next" ELSE "error"
  /\ UNCHANGED <<dirInputs, jobLog, walkI, jobPc, jobErr, concurrentFiles, uwgCount,
                 process, notDirVars>>

\* lines 492-504: a subdirectory.  A failed mkdir, or an error of the
\* subdirectory's own walk, is logged and the walk continues
WalkDir ==
  /\ Up /\ walkPc = "next" /\ walkI < Len(entries)
  /\ entries[walkI + 1] = "dir"
  /\ \E r \in Statuses, sub \in BOOLEAN : walkI' = walkI + 1
  /\ UNCHANGED <<dirInputs, jobLog, walkPc, jobPc, jobErr, concurrentFiles, uwgCount,
                 process, notDirVars>>

\* lines 532-540: a file the listing names is counted as existing; a failed
\* os.Stat is returned to main
WalkListed ==
  /\ Up /\ walkPc = "next" /\ walkI < Len(entries)
  /\ entries[walkI + 1] = "listed"
  /\ \E stat \in BOOLEAN :
       IF stat THEN walkI' = walkI + 1 /\ UNCHANGED walkPc
       ELSE walkPc' = "error" /\ UNCHANGED walkI
  /\ UNCHANGED <<dirInputs, jobLog, jobPc, jobErr, concurrentFiles, uwgCount,
                 process, notDirVars>>

\* lines 506-508: a file the listing does not name: u.wg.Add(1)
WalkAdd ==
  /\ Up /\ walkPc = "next" /\ walkI < Len(entries)
  /\ entries[walkI + 1] = "new"
  /\ uwgCount' = uwgCount + 1
  /\ walkPc' = "acquire"
  /\ UNCHANGED <<dirInputs, jobLog, walkI, jobPc, jobErr, concurrentFiles, process,
                 notDirVars>>

AcquireTransferFreely(held, cap) == TRUE

\* line 509: the send on u.concurrentFiles goes through when it has room
CanAcquireTransfer(held, cap) == held < cap

\* lines 509-511: take a transfer slot, then spawn the file task
WalkAcquire ==
  /\ Up /\ walkPc = "acquire"
  /\ CanAcquireTransfer(concurrentFiles, numTransfers)
  /\ concurrentFiles' = concurrentFiles + 1
  /\ jobPc' = [jobPc EXCEPT ![walkI + 1] = "open"]
  /\ walkI' = walkI + 1
  /\ walkPc' = "next"
  /\ UNCHANGED <<dirInputs, jobLog, jobErr, uwgCount, process, notDirVars>>

\* lines 490 and 544: past the last entry the walk returns nil
WalkReturn ==
  /\ Up /\ walkPc = "next" /\ walkI = Len(entries)
  /\ walkPc' = "returned"
  /\ UNCHANGED <<dirInputs, jobLog, walkI, jobPc, jobErr, concurrentFiles, uwgCount,
                 process, notDirVars>>

\* main: an error of the walk ends the process in log.Fatal
MainFatal ==
  /\ Up /\ walkPc = "error"
  /\ process' = "fatal_main"
  /\ UNCHANGED <<dirInputs, jobLog, walkPc, walkI, jobPc, jobErr, concurrentFiles,
                 uwgCount, notDirVars>>

WaitAtOnce(count) == TRUE

\* progress.go lines 110-112: Progress.Wait is p.wg.Wait(), which returns when
\* the counter of the WaitGroup the service shares is zero
ProgressWait(count) == count = 0

\* main: after the walk, Progress.Wait waits on the service's WaitGroup and
\* main returns
MainWait ==
  /\ Up /\ walkPc = "returned" /\ ProgressWait(uwgCount)
  /\ process' = "exited"
  /\ UNCHANGED <<dirInputs, jobLog, walkPc, walkI, jobPc, jobErr, concurrentFiles,
                 uwgCount, notDirVars>>

walkVars == <<walkPc, walkI>>

\* the file task of f leaves UploadFile with an error: lines 518-521 log it
\* and return, into the deferred release
JobFails(f) ==
  /\ jobErr' = [jobErr EXCEPT ![f] = "error"]
  /\ jobPc' = [jobPc EXCEPT ![f] = "release"]

\* lines 108-120 of UploadFile: a failed open, or a failed read of the
\* prefix, ends the process in logger.Fatal
JobOpen(f) ==
  /\ Up /\ jobPc[f] = "open"
  /\ \E ok \in BOOLEAN :
       IF ok
       THEN /\ jobPc' = [jobPc EXCEPT ![f] = "probe"]
            /\ UNCHANGED <<jobErr, process>>
       ELSE /\ jobErr' = [jobErr EXCEPT ![f] = "error"]
            /\ process' = "fatal_upload"
            /\ UNCHANGED jobPc
  /\ UNCHANGED <<dirInputs, jobLog, walkVars, concurrentFiles, uwgCount, notDirVars>>

\* lines 148-158 of UploadFile: the existence probe; an error is returned,
\* a listed file returns nil without transfer
JobProbe(f) ==
  /\ Up /\ jobPc[f] = "probe"
  /\ \E r \in Statuses, items \in BOOLEAN :
       /\ (CallErr(r) => ~items)
       /\ IF CallErr(r) THEN JobFails(f)
          ELSE IF Exists(r, items)
          THEN /\ jobErr' = [jobErr EXCEPT ![f] = "nil"]
               /\ jobPc' = [jobPc EXCEPT ![f] = "returned"]
          ELSE /\ jobPc' = [jobPc EXCEPT ![f] = "transfer"]
               /\ UNCHANGED jobErr
  /\ UNCHANGED <<dirInputs, jobLog, walkVars, concurrentFiles, uwgCount, process,
                 notDirVars>>

\* lines 160-330 of UploadFile: the part tasks, the barrier and the drain.
\* Short of totalParts descriptors the job returns "uploaded parts
\* incomplete"; a send on the closed descriptor channel panics
JobTransfer(f) ==
  /\ Up /\ jobPc[f] = "transfer"
  /\ \E out \in {"complete", "incomplete", "panic"} :
       IF out = "complete"
       THEN /\ jobPc' = [jobPc EXCEPT ![f] = "commit"]
            /\ UNCHANGED <<jobErr, process>>
       ELSE IF out = "incomplete"
       THEN /\ JobFails(f)
            /\ UNCHANGED process
       ELSE /\ process' = "panic"
            /\ UNCHANGED <<jobPc, jobErr>>
  /\ UNCHANGED <<dirInputs, jobLog, walkVars, concurrentFiles, uwgCount, notDirVars>>

\* lines 354-366 of UploadFile: the commit POST
JobCommit(f) ==
  /\ Up /\ jobPc[f] = "commit"
  /\ \E r \in Statuses :
       IF CommitFailed(r) THEN JobFails(f) /\ UNCHANGED jobLog
       ELSE /\ jobPc' = [jobPc EXCEPT ![f] = "delete"]
            /\ jobLog' = [jobLog EXCEPT ![f] = @ \cup {"committed"}]
            /\ UNCHANGED jobErr
  /\ UNCHANGED <<dirInputs, walkVars, concurrentFiles, uwgCount, process,
                 notDirVars>>

\* lines 368-379 of UploadFile: the DELETE of the resumable state
JobDelete(f) ==
  /\ Up /\ jobPc[f] = "delete"
  /\ \E r \in Statuses :
       IF CallErr(r) THEN JobFails(f)
       ELSE /\ jobErr' = [jobErr EXCEPT ![f] = "nil"]
            /\ jobPc' = [jobPc EXCEPT ![f] = "returned"]
  /\ UNCHANGED <<dirInputs, jobLog, walkVars, concurrentFiles, uwgCount, process,
                 notDirVars>>

\* lines 523-530: UploadFile returned nil; with deleteAfterUpload the local
\* file is removed, and a failure of that is logged
JobRemove(f) ==
  /\ Up /\ jobPc[f] = "returned"
  /\ \E removed \in BOOLEAN :
       /\ (~deleteAfterUpload => ~removed)
       /\ jobPc' = [jobPc EXCEPT ![f] = "release"]
       /\ jobLog' = [jobLog EXCEPT
                       ![f] = IF removed THEN @ \cup {"removed"} ELSE @]
  /\ UNCHANGED <<dirInputs, walkVars, jobErr, concurrentFiles, uwgCount,
                 process, notDirVars>>

\* lines 513-515: the deferred release of the transfer slot
JobRelease(f) ==
  /\ Up /\ jobPc[f] = "release"
  /\ concurrentFiles' = concurrentFiles - 1
  /\ jobPc' = [jobPc EXCEPT ![f] = "wgdone"]
  /\ UNCHANGED <<dirInputs, jobLog, walkVars, jobErr, uwgCount, process, notDirVars>>

\* line 512: the deferred u.wg.Done()
JobDone(f) ==
  /\ Up /\ jobPc[f] = "wgdone"
  /\ uwgCount' = uwgCount - 1
  /\ jobPc' = [jobPc EXCEPT ![f] = "exited"]
  /\ UNCHANGED <<dirInputs, jobLog, walkVars, jobErr, concurrentFiles, process,
                 notDirVars>>

NextDir ==
  \/ WalkStart \/ WalkDir \/ WalkListed \/ WalkAdd \/ WalkAcquire
  \/ WalkReturn \/ MainFatal \/ MainWait
  \/ \E f \in Files : JobOpen(f)
  \/ \E f \in Files : JobProbe(f)
  \/ \E f \in Files : JobTransfer(f)
  \/ \E f \in Files : JobCommit(f)
  \/ \E f \in Files : JobDelete(f)
  \/ \E f \in Files : JobRemove(f)
  \/ \E f \in Files : JobRelease(f)
  \/ \E f \in Files : JobDone(f)

SpecDir == InitDir /\ [][NextDir]_vars

----------------------------------------------------------------------------
(* One run of the command: main (SpecMain).  The directory branch is taken *)
(* by its result; the walk itself is SpecDir.                              *)

SourceKinds == {"file", "dir", "missing"}

\* the results of UploadFile on the single file: the process ended in
\* logger.Fatal, an error was returned, or nil was returned after a skip or
\* after the transfer
FileJobResults == {"fatal", "error", "skipped", "uploaded"}

InitMain ==
  /\ sourcePath \in {"", "path"}
  /\ destDir \in {"", "dest"}
  /\ sourceKind \in SourceKinds
  /\ deleteAfterUpload \in BOOLEAN
  /\ mainPc = "flags"
  /\ mkdirAnswer = NoAnswer
  /\ netCalls = 0
  /\ fileJob = "none"
  /\ localFile = "present"
  /\ exitStatus = NotExited
  /\ entries = <<>> /\ numTransfers = 1
  /\ walkPc = "idle" /\ walkI = 0 /\ jobPc = <<>> /\ jobErr = <<>>
  /\ jobLog = <<>>
  /\ concurrentFiles = 0 /\ uwgCount = 0 /\ process = "running"
  /\ NoFile /\ NoCall /\ NoNaming /\ NoProgress /\ NoRendering

orchInputs == <<sourcePath, destDir, sourceKind>>

\* The exit status is 0 when main returns and 1 after log.Fatal (os.Exit(1)).

\* lines 25-38: with -path or -dest empty main prints the usage and returns
MainFlags ==
  /\ mainPc = "flags"
  /\ IF sourcePath = "" \/ destDir = ""
     THEN /\ exitStatus' = 0
          /\ mainPc' = "exited"
     ELSE /\ mainPc' = "mkdir"
          /\ UNCHANGED exitStatus
  /\ UNCHANGED <<orchInputs, mkdirAnswer, netCalls, fileJob, localFile,
                 notOrchVars>>

\* lines 40-110: the configuration, the service, then CreateRemoteDir of
\* the destination; its failure is fatal
MainMkdir ==
  /\ mainPc = "mkdir"
  /\ netCalls' = netCalls + 1
  /\ \E r \in Statuses :
       /\ mkdirAnswer' = r
       /\ IF CallErr(r)
          THEN /\ exitStatus' = 1
               /\ mainPc' = "exited"
          ELSE /\ mainPc' = "stat"
               /\ UNCHANGED exitStatus
  /\ UNCHANGED <<orchInputs, fileJob, localFile, notOrchVars>>

\* lines 112-134: os.Stat of -path; a failure is fatal, a directory goes to
\* the pre-pass and the walk, a file to UploadFile
MainStat ==
  /\ mainPc = "stat"
  /\ IF sourceKind = "missing"
     THEN /\ exitStatus' = 1
          /\ mainPc' = "exited"
     ELSE /\ mainPc' = IF sourceKind = "dir" THEN "walk" ELSE "upload"
          /\ UNCHANGED exitStatus
  /\ UNCHANGED <<orchInputs, mkdirAnswer, netCalls, fileJob, localFile,
                 notOrchVars>>

\* lines 115-124: GetFilesInDirectoryInfo, AddTransfer and
\* UploadFilesInDirectory; an error of either is fatal, and so is a
\* logger.Fatal inside a file job of the walk
MainDirectory ==
  /\ mainPc = "walk"
  /\ \E prepass \in BOOLEAN, walk \in {"nil", "error", "fatal"} :
       /\ netCalls' = IF prepass THEN netCalls + 1 ELSE netCalls
       /\ IF prepass /\ walk = "nil"
          THEN /\ mainPc' = "wait"
               /\ UNCHANGED exitStatus
          ELSE /\ exitStatus' = 1
               /\ mainPc' = "exited"
  /\ UNCHANGED <<orchInputs, mkdirAnswer, fileJob, localFile, notOrchVars>>

\* lines 126-130: AddTransfer(1, size) and UploadFile of the single file;
\* an error is fatal.  Nothing here looks at deleteAfterUpload
MainUploadFile ==
  /\ mainPc = "upload"
  /\ \E res \in FileJobResults :
       /\ fileJob' = res
       /\ netCalls' = IF res = "fatal" THEN netCalls ELSE netCalls + 1
       /\ IF res \in {"fatal", "error"}
          THEN /\ exitStatus' = 1
               /\ mainPc' = "exited"
          ELSE /\ mainPc' = "wait"
               /\ UNCHANGED exitStatus
  /\ UNCHANGED <<orchInputs, mkdirAnswer, localFile, notOrchVars>>

\* lines 135-138: Progress.Wait, the renderer is stopped, main returns
MainFinish ==
  /\ mainPc = "wait"
  /\ exitStatus' = 0
  /\ mainPc' = "exited"
  /\ UNCHANGED <<orchInputs, mkdirAnswer, netCalls, fileJob, localFile,
                 notOrchVars>>

NextMain ==
  \/ MainFlags \/ MainMkdir \/ MainStat \/ MainDirectory \/ MainUploadFile
  \/ MainFinish

SpecMain == InitMain /\ [][NextMain]_vars

----------------------------------------------------------------------------
(* The naming of the parts of one file (SpecName): the scheduling loop     *)
(* of UploadFile starts the part tasks under the worker semaphore; each    *)
(* task that sends a POST assigns the partName variable declared at line   *)
(* 242, outside the loop, and reads it again when it builds the request.   *)

\* lines 284-289: the name task k assigns to partName; with randomisation
\* off and a single part nothing is assigned and the variable keeps its
\* value.  A UUID is told apart by the task that drew it; %03d pads the
\* ordinal to three digits.
PartName(k, current) ==
  IF randomisePart THEN <<"uuid", k>>
  ELSE IF nameTotal > 1
       THEN <<"part", k \div 100, (k \div 10) % 10, k % 10>>
       ELSE current

KeepConfigured(recorded, configured) == configured

\* lines 198-206: the job's channelID and encryptFile start as the
\* configured values and are replaced by those of the first part of the
\* resumable state when it has one
Override(recorded, configured) ==
  IF Len(recorded) > 0
  THEN [channelId |-> recorded[1].ChannelID,
        encrypted |-> recorded[1].Encrypted]
  ELSE configured

InitName ==
  /\ nameTotal \in 1 .. TotalParts(MaxFileSize, 1)
  /\ channelID \in 1 .. MaxChannel
  /\ encryptFiles \in BOOLEAN
  /\ uploadFile \in UNION {[1 .. n -> [ChannelID : 1 .. MaxChannel,
                                        Encrypted : BOOLEAN]] :
                             n \in 0 .. MaxResume}
  /\ sentParams = [k \in 1 .. nameTotal |-> NoParams]
  /\ filePayload = NoParams
  /\ nameWorkers \in 1 .. MaxWorkers
  /\ randomisePart \in BOOLEAN
  /\ namePc = [k \in 1 .. nameTotal |-> "idle"]
  /\ partName = <<"file">>
  /\ sentName = [k \in 1 .. nameTotal |-> NoName]
  /\ NoFile /\ NoCall /\ NoWalk /\ NoMain /\ NoProgress /\ NoRendering

\* the job's configuration and the state it fetched
nameParams == <<channelID, encryptFiles, uploadFile>>

\* lines 244-282: the loop takes a worker slot and starts the task of the
\* next ordinal; a task whose open or seek fails, or whose ordinal is
\* listed in the resumable state, returns without naming or sending
\* (skips) and gives the slot back
NameSpawn(k) ==
  /\ namePc[k] = "idle"
  /\ \A j \in 1 .. k - 1 : namePc[j] # "idle"
  /\ CanAcquire(Cardinality({j \in 1 .. nameTotal :
                               namePc[j] \in {"name", "opts"}}), nameWorkers)
  /\ \E skips \in BOOLEAN :
       namePc' = [namePc EXCEPT ![k] = IF skips THEN "exited" ELSE "name"]
  /\ UNCHANGED <<notNameVars, nameTotal, nameWorkers, randomisePart, partName,
                 sentName, nameParams, sentParams, filePayload>>

\* lines 284-289: the task assigns the shared variable
NameWrite(k) ==
  /\ namePc[k] = "name"
  /\ partName' = PartName(k, partName)
  /\ namePc' = [namePc EXCEPT ![k] = "opts"]
  /\ UNCHANGED <<notNameVars, nameTotal, nameWorkers, randomisePart, sentName,
                 nameParams, sentParams, filePayload>>

\* lines 291-316 and 256-258: the task reads the shared variable into the
\* request's partName parameter, the POST is made and answered, the task
\* returns and gives the slot back
NamePost(k) ==
  /\ namePc[k] = "opts"
  /\ sentName' = [sentName EXCEPT ![k] = partName]
  /\ sentParams' =
       [sentParams EXCEPT
          ![k] = Override(uploadFile, [channelId |-> channelID,
                                       encrypted |-> encryptFiles])]
  /\ namePc' = [namePc EXCEPT ![k] = "exited"]
  /\ UNCHANGED <<notNameVars, nameTotal, nameWorkers, randomisePart, partName,
                 nameParams, filePayload>>

\* lines 318-362: every task has returned and the drain found a descriptor
\* for every ordinal (a task that sent nothing can have published only a
\* descriptor of the resumable state): the commit payload is built and
\* posted
NameCommit ==
  /\ \A k \in 1 .. nameTotal : namePc[k] = "exited"
  /\ \A k \in 1 .. nameTotal : sentName[k] = NoName => Len(uploadFile) > 0
  /\ filePayload = NoParams
  /\ filePayload' = Override(uploadFile, [channelId |-> channelID,
                                          encrypted |-> encryptFiles])
  /\ UNCHANGED <<notNameVars, nameTotal, nameWorkers, randomisePart, namePc,
                 partName, sentName, nameParams, sentParams>>

NextName ==
  \/ \E k \in 1 .. nameTotal : NameSpawn(k)
  \/ \E k \in 1 .. nameTotal : NameWrite(k)
  \/ \E k \in 1 .. nameTotal : NamePost(k)
  \/ NameCommit

SpecName == InitName /\ [][NextName]_vars

----------------------------------------------------------------------------
(* One directory upload seen from the aggregator (SpecProgress): main's   *)
(* pre-pass and walk (part_013 lines 114-137), the file tasks moving      *)
(* their bars, and the renders of pb.Progress.  A tree entry is a record  *)
(* [kind, size, listed, sub]: a file with its size and whether the remote *)
(* listing of its directory names it, or a subdirectory with its entries. *)
(* Each file is sent in parts of one byte, and TRANSFERS is 1: the file   *)
(* tasks run one after another, beside the walk and the renders.          *)

\* lines 547-576: the pre-pass counts every file of the tree and adds up
\* the sizes
RECURSIVE GetFilesInDirectoryInfo(_)
GetFilesInDirectoryInfo(dir) ==
  IF dir = <<>> THEN [TotalFiles |-> 0, TotalSize |-> 0]
  ELSE LET entry == Head(dir)
           info == GetFilesInDirectoryInfo(Tail(dir))
           subInfo == GetFilesInDirectoryInfo(entry.sub)
       IN  IF entry.kind = "dir"
           THEN [TotalFiles |-> info.TotalFiles + subInfo.TotalFiles,
                 TotalSize |-> info.TotalSize + subInfo.TotalSize]
           ELSE [TotalFiles |-> info.TotalFiles + 1,
                 TotalSize |-> info.TotalSize + entry.size]

NothingListed(entry) == FALSE

\* lines 465-472: is the file named in the remote listing of its directory
checkFileExistsInDirectory(entry) == entry.listed

\* NewOptions64(max) at clock reading t: the fields of barState and
\* barConfig that the engine and the renders use
NewOptions64(max, t) ==
  [currentBytes |-> 0, currentNum |-> 0, exit |-> FALSE, completed |-> FALSE,
   finished |-> FALSE, error |-> FALSE, max |-> max, startTime |-> t]

InitProgress ==
  /\ LET Leaves == [kind : {"file"}, size : 0 .. MaxBytes, listed : BOOLEAN,
                    sub : {<<>>}]
         Dirs == [kind : {"dir"}, size : {0}, listed : {FALSE},
                  sub : {<<>>} \cup {<<f>> : f \in Leaves}]
     IN  tree \in UNION {[1 .. n -> Leaves \cup Dirs] : n \in 0 .. MaxTree}
  /\ numTransfers = 1
  /\ todo = <<>> /\ jobs = <<>> /\ Bars = <<>>
  /\ state = NewProgress
  /\ progPc = "prepass"
  /\ now = 0
  /\ shown = NoRender /\ prior = NoRender /\ streak = 0
  /\ skipped = FALSE
  /\ entries = <<>> /\ deleteAfterUpload = FALSE
  /\ walkPc = "idle" /\ walkI = 0 /\ jobPc = <<>> /\ jobErr = <<>>
  /\ jobLog = <<>>
  /\ concurrentFiles = 0 /\ uwgCount = 0 /\ process = "running"
  /\ NoFile /\ NoCall /\ NoMain /\ NoNaming /\ NoRendering

\* the process runs and the render loop has not been stopped
Rendering == progPc \in {"prepass", "walk", "wait"}

\* part_013 lines 116-121 and upload.go lines 474-487: the pre-pass, then
\* AddTransfer with its totals, then the walk reads and lists the root; a
\* failure of either ends the process in log.Fatal
MainPrepass ==
  /\ progPc = "prepass"
  /\ \E ok \in BOOLEAN :
       IF ok
       THEN /\ state' = [state EXCEPT
                 !.totalSize = @ + GetFilesInDirectoryInfo(tree).TotalSize,
                 !.totalTransfers = @ + GetFilesInDirectoryInfo(tree).TotalFiles]
            /\ todo' = [i \in 1 .. Len(tree) |->
                          [entry |-> tree[i], inSub |-> FALSE,
                           mkdir |-> NoAnswer]]
            /\ progPc' = "walk"
       ELSE /\ progPc' = "fatal"
            /\ UNCHANGED <<state, todo>>
  /\ streak' = 0 /\ shown' = NoRender /\ prior' = NoRender
  /\ UNCHANGED <<notProgVars, tree, jobs, Bars, now, skipped>>

MkdirAnyway(r) == TRUE

\* lines 494-499: the subdirectory is entered only when CreateRemoteDir
\* returned no error
MkdirOk(r) == ~CallErr(r)

\* lines 489-541: the walk visits the next entry.  A subdirectory whose
\* mkdir or whose own walk fails is passed over (r is the answer to the
\* mkdir, ok whether the subdirectory could be read and listed; an entry
\* and a file job carry the answer to the mkdir of their subdirectory); a file not in the listing
\* gets a transfer slot and a file task; a listed file is stat-ed and
\* reported with AddExisting, and a failed stat returns from the walk of
\* its directory (log.Fatal in main when that is the root).
WalkEntry ==
  /\ progPc = "walk" /\ todo # <<>>
  /\ LET entry == Head(todo).entry
         inSub == Head(todo).inSub
     IN  IF entry.kind = "dir"
         THEN /\ \E r \in {201, 500, NetFatal}, ok \in BOOLEAN :
                   IF MkdirOk(r) /\ ok
                   THEN /\ todo' = [i \in 1 .. Len(entry.sub) |->
                                      [entry |-> entry.sub[i], inSub |-> TRUE,
                                       mkdir |-> r]]
                                   \o Tail(todo)
                        /\ UNCHANGED skipped
                   ELSE /\ todo' = Tail(todo)
                        /\ skipped' = TRUE
              /\ UNCHANGED <<jobs, state, progPc>>
         ELSE IF ~checkFileExistsInDirectory(entry)
         THEN /\ CanAcquireTransfer(
                   Cardinality({j \in 1 .. Len(jobs) : jobs[j].pc # "done"}),
                   numTransfers)
              /\ jobs' = Append(jobs, [pc |-> "open", size |-> entry.size,
                                       bar |-> NewOptions64(0, 0),
                                       seen |-> <<>>, sent |-> 0,
                                       got |-> TRUE, err |-> "none",
                                       mkdir |-> Head(todo).mkdir])
              /\ todo' = Tail(todo)
              /\ UNCHANGED <<state, progPc, skipped>>
         ELSE \E ok \in BOOLEAN :
                IF ok
                THEN /\ state' = [state EXCEPT
                                    !.existingBytes = @ + entry.size,
                                    !.existing = @ + 1]
                     /\ todo' = Tail(todo)
                     /\ UNCHANGED <<jobs, progPc, skipped>>
                ELSE IF inSub
                THEN /\ todo' = SelectSeq(Tail(todo), LAMBDA t : ~t.inSub)
                     /\ skipped' = TRUE
                     /\ UNCHANGED <<jobs, state, progPc>>
                ELSE /\ progPc' = "fatal"
                     /\ UNCHANGED <<jobs, state, todo, skipped>>
  /\ streak' = 0 /\ shown' = NoRender /\ prior' = NoRender
  /\ UNCHANGED <<notProgVars, tree, Bars, now>>

\* line 543 and part_013 lines 135-137: the walk returns, Progress.Wait
\* waits for the file tasks, the render loop is stopped and main returns
MainStop ==
  /\ progPc \in {"walk", "wait"}
  /\ IF progPc = "walk"
     THEN todo = <<>> /\ progPc' = "wait"
     ELSE (\A j \in 1 .. Len(jobs) : jobs[j].pc = "done") /\ progPc' = "stopped"
  /\ UNCHANGED <<notProgVars, tree, todo, jobs, Bars, state, now, shown, prior,
                 streak, skipped>>

\* lines 108-146: the file task opens the file and reads its prefix (a
\* failure, and an empty file, end the process in logger.Fatal), creates
\* the bar and calls AddBar, whose append first reads p.Bars
UploadOpen(j) ==
  /\ Rendering /\ jobs[j].pc = "open"
  /\ \E ok \in BOOLEAN :
       IF ok /\ jobs[j].size > 0
       THEN /\ jobs' = [jobs EXCEPT ![j].bar = NewOptions64(jobs[j].size, now),
                                    ![j].seen = Bars,
                                    ![j].pc = "addbar"]
            /\ UNCHANGED progPc
       ELSE /\ progPc' = "fatal"
            /\ UNCHANGED jobs
  /\ streak' = 0 /\ shown' = NoRender /\ prior' = NoRender
  /\ UNCHANGED <<notProgVars, tree, todo, Bars, state, now,
                 skipped>>

\* progress.go lines 106-108: p.Bars = append(p.Bars, newBar) stores the
\* list it read with the bar added; no lock is held, so bars that other
\* tasks added since the read are overwritten
AddBar(j) ==
  /\ Rendering /\ jobs[j].pc = "addbar"
  /\ Bars' = Append(jobs[j].seen, j)
  /\ jobs' = [jobs EXCEPT ![j].pc = "probe"]
  /\ streak' = 0 /\ shown' = NoRender /\ prior' = NoRender
  /\ UNCHANGED <<notProgVars, tree, todo, state, progPc, now,
                 skipped>>

\* lines 148-158: the existence probe: an error aborts the bar and fails
\* the job; a file found on the remote is reported with AddExisting and
\* the job returns nil
UploadProbe(j) ==
  /\ Rendering /\ jobs[j].pc = "probe"
  /\ \E answer \in {"error", "exists", "absent"} :
       /\ jobs' = [jobs EXCEPT
            ![j].bar = IF answer = "error" THEN Abort(@) ELSE @,
            ![j].err = IF answer = "error" THEN "error"
                       ELSE IF answer = "exists" THEN "nil" ELSE @,
            ![j].pc = IF answer = "absent" THEN "parts" ELSE "return"]
       /\ state' = IF answer = "exists"
                   THEN [state EXCEPT !.existingBytes = @ + jobs[j].size,
                                      !.existing = @ + 1]
                   ELSE state
  /\ streak' = 0 /\ shown' = NoRender /\ prior' = NoRender
  /\ UNCHANGED <<notProgVars, tree, todo, Bars, progPc, now,
                 skipped>>

\* lines 244-317: the part task of the next ordinal.  A part listed in the
\* resumable state (asked for only when the file is larger than one part)
\* advances the bar by its recorded size; a POST answered 201 has advanced
\* it by the part's length; a failed one by what was read of the body.
UploadPart(j) ==
  /\ Rendering /\ jobs[j].pc = "parts" /\ jobs[j].sent < jobs[j].size
  /\ \E outcome \in {"resumed", "posted", "failed"}, n \in 0 .. MaxBytes :
       /\ outcome = "resumed" => jobs[j].size > 1 /\ n >= 1
       /\ outcome = "posted" => n = 1
       /\ outcome = "failed" => n <= 1
       /\ jobs' = [jobs EXCEPT
            ![j].bar = IncrInt64(@, n, jobs[j].bar.max),
            ![j].sent = @ + 1,
            ![j].got = @ /\ outcome # "failed"]
  /\ streak' = 0 /\ shown' = NoRender /\ prior' = NoRender
  /\ UNCHANGED <<notProgVars, tree, todo, Bars, state, progPc, now, skipped>>

\* lines 236-240 and 319-378: the barrier finishes the bar; an incomplete
\* set of descriptors aborts it and fails the job; otherwise the commit
\* and the DELETE are sent, and a failure of either is returned
UploadFinish(j) ==
  /\ Rendering /\ jobs[j].pc = "parts" /\ jobs[j].sent = jobs[j].size
  /\ \E answer \in {"committed", "commit_error", "delete_error"} :
       jobs' = [jobs EXCEPT
         ![j].bar = IF jobs[j].got THEN Finish(@, jobs[j].bar.max)
                    ELSE Abort(Finish(@, jobs[j].bar.max)),
         ![j].err = IF ~jobs[j].got THEN "error"
                    ELSE IF answer = "committed" THEN "nil" ELSE "error",
         ![j].pc = "return"]
  /\ streak' = 0 /\ shown' = NoRender /\ prior' = NoRender
  /\ UNCHANGED <<notProgVars, tree, todo, Bars, state, progPc, now, skipped>>

\* line 144 and lines 512-515: the deferred bar.Close, then the file task
\* gives its transfer slot back and is done
UploadReturn(j) ==
  /\ Rendering /\ jobs[j].pc = "return"
  /\ jobs' = [jobs EXCEPT ![j].bar = Close(@), ![j].pc = "done"]
  /\ streak' = 0 /\ shown' = NoRender /\ prior' = NoRender
  /\ UNCHANGED <<notProgVars, tree, todo, Bars, state, progPc, now, skipped>>

\* part_007 lines 187-220 and part_006 lines 556-570: getBar at clock
\* reading t: the bar with its flags brought up to date and the line it
\* renders, if any.  The line shows the bytes, the count, the elapsed time
\* and, until the bar is finished, the rate since the start.
getBar(b, t) ==
  IF ~b.error /\ b.exit
  THEN [bar |-> [b EXCEPT !.error = TRUE], str |-> <<>>, averageRate |-> 0]
  ELSE LET f == [b EXCEPT !.finished = @ \/ b.currentNum >= b.max]
           rate == IF t > f.startTime
                   THEN f.currentBytes \div (t - f.startTime) ELSE 0
       IN  [bar |-> f,
            str |-> IF f.completed THEN <<>>
                    ELSE <<[currentBytes |-> f.currentBytes,
                            currentNum |-> f.currentNum,
                            max |-> f.max,
                            finished |-> f.finished,
                            elapsed |-> t - f.startTime,
                            rate |-> IF f.finished THEN 0 ELSE rate]>>,
            averageRate |-> rate]

KeepCounters(st) == st

\* progress.go lines 236-243
resetState(st) ==
  [st EXCEPT !.uploaded = 0, !.totalAverageRate = 0, !.uploadedBytes = 0,
             !.error = 0]

\* progress.go lines 258-291: one bar's share of a render: acc holds the
\* aggregator state, the jobs (for their bars) and the lines written so far
updateProgressState(acc, j, t) ==
  LET g == getBar(acc.jobs[j].bar, t)
      js == [acc.jobs EXCEPT ![j].bar = g.bar]
      st == acc.state
  IN  IF g.bar.exit
      THEN [state |-> [st EXCEPT !.error = @ + 1],
            jobs |-> js, bars |-> acc.bars]
      ELSE IF g.bar.completed
      THEN [state |-> [st EXCEPT !.uploadedBytes = @ + g.bar.currentBytes,
                                 !.uploaded = @ + 1],
            jobs |-> js, bars |-> acc.bars]
      ELSE [state |-> [st EXCEPT
                         !.uploadedBytes = @ + g.bar.currentBytes,
                         !.totalAverageRate =
                            IF g.bar.finished THEN @ ELSE @ + g.averageRate],
            jobs |-> js, bars |-> acc.bars \o g.str]

\* progress.go lines 245-256: the loop of Progress.String over p.Bars
RECURSIVE String(_, _, _)
String(acc, bars, t) ==
  IF bars = <<>> THEN acc
  ELSE String(updateProgressState(acc, Head(bars), t), Tail(bars), t)

\* progress.go lines 166-176 and 293-333: a render, from the ticker or
\* from a log write: the bars' lines, then the statistics block
render ==
  /\ Rendering
  /\ LET r == String([state |-> resetState(state), jobs |-> jobs,
                      bars |-> <<>>], Bars, now)
     IN  /\ state' = r.state
         /\ jobs' = r.jobs
         /\ prior' = shown
         /\ shown' =
              [at |-> now,
               stats |-> <<r.state.uploadedBytes + r.state.existingBytes,
                           r.state.totalSize,
                           r.state.totalAverageRate,
                           r.state.uploaded + r.state.existing,
                           r.state.totalTransfers,
                           r.state.error>>,
               bars |-> r.bars,
               counters |-> <<r.state.uploaded, r.state.uploadedBytes,
                              r.state.error>>]
  /\ streak' = IF streak < 2 THEN streak + 1 ELSE streak
  /\ UNCHANGED <<notProgVars, tree, todo, Bars, progPc, now, skipped>>

\* time passes
Tick ==
  /\ Rendering /\ now < MaxClock
  /\ now' = now + 1
  /\ UNCHANGED <<notProgVars, tree, todo, jobs, Bars, state, progPc, shown,
                 prior, streak, skipped>>

NextProgress ==
  \/ MainPrepass \/ WalkEntry \/ MainStop
  \/ \E j \in 1 .. Len(jobs) : UploadOpen(j)
  \/ \E j \in 1 .. Len(jobs) : AddBar(j)
  \/ \E j \in 1 .. Len(jobs) : UploadProbe(j)
  \/ \E j \in 1 .. Len(jobs) : UploadPart(j)
  \/ \E j \in 1 .. Len(jobs) : UploadFinish(j)
  \/ \E j \in 1 .. Len(jobs) : UploadReturn(j)
  \/ render \/ Tick

SpecProgress == InitProgress /\ [][NextProgress]_vars

----------------------------------------------------------------------------
(* The aggregator under concurrency (SpecRender).  MaxTransfers file tasks  *)
(* run at once, each with a bar for a file of one byte; the ticker renders  *)
(* again and again, and with config.Debug every log line of a file task is  *)
(* written to the aggregator's logWriter, whose Write renders on the task   *)
(* that logs.  progress.go takes p.state.mu inside resetState and inside    *)
(* each counter update, and nothing else: p.Bars and nlines are read and    *)
(* written with no lock held.                                               *)

\* the file tasks; renderer 0 is the ticker goroutine of StartProgress
FileTasks == 1 .. MaxTransfers

\* main renders too: with config.Debug its log lines go to the logWriter
MainTask == MaxTransfers + 1

Renderers == 0 .. MainTask

\* a task outside AddBar and outside render: its locals are dead
AtRest(at) ==
  [pc |-> at, ret |-> at, seen |-> <<>>, i |-> 0, nl |-> 0, stats |-> <<>>,
   lines |-> 0, erase |-> 0]

InitRender ==
  /\ debug \in BOOLEAN
  /\ pBars = <<>>
  /\ pState = NewProgress
  /\ nlines = 0
  /\ task = [t \in Renderers |-> AtRest(IF t = 0 THEN "tick"
                                      ELSE IF t = MainTask THEN "main"
                                      ELSE "addbar")]
  /\ barOf = [t \in FileTasks |-> NewOptions64(1, 0)]
  /\ written = NoWrite
  /\ before = 0
  /\ ticks = 0
  /\ stopPc = "running"
  /\ NoFile /\ NoCall /\ NoWalk /\ NoMain /\ NoNaming /\ NoProgress

\* progress.go line 107, first half: append reads p.Bars
AddBarLoad(t) ==
  /\ task[t].pc = "addbar"
  /\ task' = [task EXCEPT ![t].seen = pBars, ![t].pc = "append"]
  /\ UNCHANGED <<debug, pBars, pState, nlines, barOf, written, before, ticks,
                 stopPc, notRenderVars>>

\* progress.go line 107, second half: the result of append is stored in
\* p.Bars
AddBarStore(t) ==
  /\ task[t].pc = "append"
  /\ pBars' = Append(task[t].seen, t)
  /\ task' = [task EXCEPT ![t].seen = <<>>, ![t].pc = "send"]
  /\ UNCHANGED <<debug, pState, nlines, barOf, written, before, ticks,
                 stopPc, notRenderVars>>

\* upload.go lines 148-152, 318-329 and 377: the job ends.  After a failure
\* the bar is aborted and an error is logged; after the transfer the bar is
\* finished and "file sent" is logged.  With config.Debug the log line is
\* rendered on this task
TaskFinish(t) ==
  /\ t \in FileTasks /\ task[t].pc = "send"
  /\ \E sent \in BOOLEAN :
       barOf' = [barOf EXCEPT
                   ![t] = IF sent THEN Finish(IncrInt64(@, 1, 1), 1)
                          ELSE Abort(@)]
  /\ task' = [task EXCEPT ![t].pc = IF debug THEN "reset" ELSE "close",
                          ![t].ret = "close"]
  /\ UNCHANGED <<debug, pBars, pState, nlines, written, before, ticks,
                 stopPc, notRenderVars>>

\* upload.go line 144: the deferred bar.Close()
TaskClose(t) ==
  /\ t \in FileTasks /\ task[t].pc = "close"
  /\ barOf' = [barOf EXCEPT ![t] = Close(@)]
  /\ task' = [task EXCEPT ![t] = AtRest("done")]
  /\ UNCHANGED <<debug, pBars, pState, nlines, written, before, ticks,
                 stopPc, notRenderVars>>

\* progress.go lines 82-90: the ticker fires and the ticker goroutine
\* renders
Ticker ==
  /\ task[0].pc = "tick" /\ ticks < MaxTicks
  /\ ticks' = ticks + 1
  /\ task' = [task EXCEPT ![0].pc = "reset", ![0].ret = "tick"]
  /\ UNCHANGED <<debug, pBars, pState, nlines, barOf, written, before,
                 stopPc, notRenderVars>>

\* progress.go lines 248-251: resetState, and the range statement reads
\* p.Bars
RenderReset(t) ==
  /\ task[t].pc = "reset"
  /\ pState' = resetState(pState)
  /\ task' = [task EXCEPT ![t].seen = pBars, ![t].i = 0, ![t].nl = 0,
                          ![t].pc = "range"]
  /\ UNCHANGED <<debug, pBars, nlines, barOf, written, before, ticks,
                 stopPc, notRenderVars>>

\* progress.go lines 251-253 and 258-291: updateProgressState on the next
\* bar of the list the range statement read; a bar that wrote its line and
\* is not the last of p.Bars is followed by a newline
RenderRange(t) ==
  /\ task[t].pc = "range" /\ task[t].i < Len(task[t].seen)
  /\ LET j == task[t].seen[task[t].i + 1]
         r == updateProgressState(
                [state |-> pState,
                 jobs |-> [k \in FileTasks |-> [bar |-> barOf[k]]],
                 bars |-> <<>>], j, 0)
     IN  /\ pState' = r.state
         /\ barOf' = [barOf EXCEPT ![j] = r.jobs[j].bar]
         /\ task' = [task EXCEPT
                       ![t].i = @ + 1,
                       ![t].nl = IF r.bars # <<>> /\ task[t].i + 1 # Len(pBars)
                                 THEN @ + 1 ELSE @]
  /\ UNCHANGED <<debug, pBars, nlines, written, before, ticks,
                 stopPc, notRenderVars>>

\* progress.go lines 171 and 293-333: the statistics block is formatted
\* from the counters: two lines, the errors line when there are errors,
\* "Transferring:", and then the bars' lines
RenderStats(t) ==
  /\ task[t].pc = "range" /\ task[t].i = Len(task[t].seen)
  /\ task' = [task EXCEPT
                ![t].stats = <<pState.uploaded, pState.uploadedBytes,
                               pState.error>>,
                ![t].lines = 4 + (IF pState.error > 0 THEN 1 ELSE 0)
                               + task[t].nl,
                ![t].pc = "clear"]
  /\ UNCHANGED <<debug, pBars, pState, nlines, barOf, written, before, ticks,
                 stopPc, notRenderVars>>

\* progress.go lines 344-348: the lines to erase are counted from nlines:
\* nlines - 1 times erase and move up, then one more erase
RenderClear(t) ==
  /\ task[t].pc = "clear"
  /\ task' = [task EXCEPT ![t].erase = IF nlines > 1 THEN nlines ELSE 1,
                          ![t].pc = "emit"]
  /\ UNCHANGED <<debug, pBars, pState, nlines, barOf, written, before, ticks,
                 stopPc, notRenderVars>>

\* progress.go lines 355-371: nlines is set to the number of lines of this
\* render and the buffer is written to the terminal
RenderEmit(t) ==
  /\ task[t].pc = "emit"
  /\ nlines' = task[t].lines
  /\ before' = written.emitted
  /\ written' = [erased |-> task[t].erase, emitted |-> task[t].lines,
                 stats |-> task[t].stats]
  /\ task' = [task EXCEPT ![t] = AtRest(task[t].ret)]
  /\ UNCHANGED <<debug, pBars, pState, barOf, ticks, stopPc, notRenderVars>>

\* part_013 lines 135-136 and progress.go lines 99-101: after
\* Progress.Wait, when every file task has returned, main invokes the stop
\* handle, which sleeps a second and closes the stop channel
StopClose ==
  /\ stopPc = "running"
  /\ \A t \in FileTasks : task[t].pc = "done"
  /\ stopPc' = "closed"
  /\ UNCHANGED <<debug, pBars, pState, nlines, task, barOf, written, before,
                 ticks, notRenderVars>>

\* progress.go lines 91-95: the select of the ticker goroutine takes the
\* closed stop channel: ticker.Stop, the newline is printed, the goroutine
\* returns into its deferred wg.Done
TickerStop ==
  /\ stopPc = "closed" /\ task[0].pc = "tick"
  /\ task' = [task EXCEPT ![0] = AtRest("exited")]
  /\ UNCHANGED <<debug, pBars, pState, nlines, barOf, written, before, ticks,
                 stopPc, notRenderVars>>

\* progress.go lines 78-81 and 102: the handle's wg.Wait returns when the
\* ticker goroutine has run its deferred wg.Done
TickerExited(at) == at = "exited"

\* progress.go line 102: the handle returns
StopReturn ==
  /\ stopPc = "closed" /\ TickerExited(task[0].pc)
  /\ stopPc' = "returned"
  /\ UNCHANGED <<debug, pBars, pState, nlines, task, barOf, written, before,
                 ticks, notRenderVars>>

\* part_013 line 138 and progress.go lines 42-45: log.Info("uploads
\* complete!"); with config.Debug the line is written to the logWriter,
\* whose Write renders on main
MainLog ==
  /\ stopPc = "returned"
  /\ stopPc' = "logged"
  /\ task' = [task EXCEPT ![MainTask].pc = IF debug THEN "reset" ELSE "exited",
                          ![MainTask].ret = "exited"]
  /\ UNCHANGED <<debug, pBars, pState, nlines, barOf, written, before, ticks,
                 notRenderVars>>

NextRender ==
  \/ Ticker \/ StopClose \/ TickerStop \/ StopReturn \/ MainLog
  \/ \E t \in FileTasks : AddBarLoad(t)
  \/ \E t \in FileTasks : AddBarStore(t)
  \/ \E t \in FileTasks : TaskFinish(t)
  \/ \E t \in FileTasks : TaskClose(t)
  \/ \E t \in Renderers : RenderReset(t)
  \/ \E t \in Renderers : RenderRange(t)
  \/ \E t \in Renderers : RenderStats(t)
  \/ \E t \in Renderers : RenderClear(t)
  \/ \E t \in Renderers : RenderEmit(t)

SpecRender == InitRender /\ [][NextRender]_vars

----------------------------------------------------------------------------
(* One bar and the operations of its type (SpecBar), applied in any order. *)
(* The bar is barOf[1]; no task, no ticker and no aggregator state moves.  *)
(* Describe writes the description only, which is not among the fields     *)
(* kept here.                                                              *)

\* part_007 lines 64-69: Set64 advances by the difference to currentBytes
Set64(b, num) == IncrInt64(b, num - b.currentBytes, b.max)

\* part_007 lines 158-167: the new max is stored, then IncrInt(0)
ChangeMax64(b, newMax) == IncrInt64([b EXCEPT !.max = newMax], 0, newMax)

\* part_007 lines 38-43: the whole state is replaced by getBasicState(), the
\* state of a new bar; config.max stays
Reset(b, t) == NewOptions64(b.max, t)

InitBar ==
  /\ debug = FALSE /\ pBars = <<>> /\ pState = NewProgress /\ nlines = 0
  /\ task = <<>> /\ written = NoWrite /\ before = 0 /\ ticks = 0
  /\ stopPc = "idle"
  /\ barOf \in {<<NewOptions64(max, 0)>> : max \in 0 .. MaxBytes}
  /\ NoFile /\ NoCall /\ NoWalk /\ NoMain /\ NoNaming /\ NoProgress

\* Bar.IncrInt64(num)
BarIncrInt64 ==
  /\ \E num \in 0 .. MaxBytes :
       /\ barOf[1].currentBytes + num <= MaxBytes
       /\ barOf' = [barOf EXCEPT ![1] = IncrInt64(@, num, @.max)]
  /\ UNCHANGED <<debug, pBars, pState, nlines, task, written, before, ticks,
                 stopPc, notRenderVars>>

\* Bar.Set64(num)
BarSet64 ==
  /\ \E num \in 0 .. MaxBytes : barOf' = [barOf EXCEPT ![1] = Set64(@, num)]
  /\ UNCHANGED <<debug, pBars, pState, nlines, task, written, before, ticks,
                 stopPc, notRenderVars>>

\* Bar.Finish()
BarFinish ==
  /\ barOf' = [barOf EXCEPT ![1] = Finish(@, @.max)]
  /\ UNCHANGED <<debug, pBars, pState, nlines, task, written, before, ticks,
                 stopPc, notRenderVars>>

\* Bar.Close()
BarClose ==
  /\ barOf' = [barOf EXCEPT ![1] = Close(@)]
  /\ UNCHANGED <<debug, pBars, pState, nlines, task, written, before, ticks,
                 stopPc, notRenderVars>>

\* Bar.Abort()
BarAbort ==
  /\ barOf' = [barOf EXCEPT ![1] = Abort(@)]
  /\ UNCHANGED <<debug, pBars, pState, nlines, task, written, before, ticks,
                 stopPc, notRenderVars>>

\* Bar.ChangeMax64(newMax)
BarChangeMax64 ==
  /\ \E newMax \in 0 .. MaxBytes :
       barOf' = [barOf EXCEPT ![1] = ChangeMax64(@, newMax)]
  /\ UNCHANGED <<debug, pBars, pState, nlines, task, written, before, ticks,
                 stopPc, notRenderVars>>

\* Bar.Reset()
BarReset ==
  /\ barOf' = [barOf EXCEPT ![1] = Reset(@, 0)]
  /\ UNCHANGED <<debug, pBars, pState, nlines, task, written, before, ticks,
                 stopPc, notRenderVars>>

\* a render of the bar: getBar brings the flags up to date
BarRender ==
  /\ barOf' = [barOf EXCEPT ![1] = getBar(@, 0).bar]
  /\ UNCHANGED <<debug, pBars, pState, nlines, task, written, before, ticks,
                 stopPc, notRenderVars>>

NextBar ==
  \/ BarIncrInt64 \/ BarSet64 \/ BarFinish \/ BarClose \/ BarAbort
  \/ BarChangeMax64 \/ BarReset \/ BarRender

SpecBar == InitBar /\ [][NextBar]_vars

----------------------------------------------------------------------------
(* Properties. *)

\* ceil(S / P), from its definition: the least n with n * P >= S
CeilDiv(S, P) == CHOOSE n \in 0 .. S : n * P >= S /\ (n = 0 \/ (n - 1) * P < S)

\* the part task of ordinal k has been started and has not exited
Running(k) == taskPc[k] \notin {"idle", "exited"}

\* the part task of ordinal k holds a worker slot
HoldsSlot(k) == taskPc[k] \in {"post", "pubx", "incr", "publish", "release"}

\* the part task of ordinal k is past its upload attempt
AttemptOver(k) == taskPc[k] \in {"release", "wgdone", "exited"}

\* the part task of ordinal k got a descriptor with a nonzero part id
Obtained(k) == taskDesc[k].PartId # 0

\* the server's resumable state lists ordinal k
Listed(k) == \E i \in 1 .. Len(serverState) : serverState[i].PartNo = k

RecordedSize(k) ==
  (CHOOSE d \in {serverState[i] : i \in 1 .. Len(serverState)} :
     d.PartNo = k).Size

\* C1: every commit POST carries a manifest of exactly ceil(S/P) parts whose
\* ordinals are 1..N in ascending order, whatever order the part tasks
\* published in.
C1_ManifestDenseAscending ==
  commitSent =>
    /\ fileSize >= 1
    /\ Len(manifest) = CeilDiv(fileSize, partSize)
    /\ \A i \in 1 .. Len(manifest) : manifest[i].PartNo = i

\* a two-part manifest was committed
C1_Witness == commitSent /\ Len(manifest) = 2 /\ numWorkers = 2

C3_CommitAfterTasksExit ==
  commitSent => \A k \in Ordinals : taskPc[k] = "exited"

\* C4: a DELETE of the resumable state is sent only after the commit POST
\* succeeded; a failed commit is returned as the job's error and no DELETE
\* is sent.
C4_DeleteOnlyAfterCommit ==
  /\ deleteSent => commitOk
  /\ (commitSent /\ ~commitOk) =>
        /\ pc \in {"return", "done"}
        /\ result = "commit_error"
        /\ ~deleteSent

\* the commit failed and the job returned
C4_Witness == commitSent /\ ~commitOk /\ pc = "done"

\* C5: the part tasks holding a worker slot are exactly those counted by
\* the semaphore, at most WORKERS of them, so at most WORKERS part POSTs are
\* in flight; a task that is not started, or has exited, holds none.
C5_WorkerBound ==
  /\ Cardinality({k \in Ordinals : HoldsSlot(k)}) = concurrentWorkers
  /\ concurrentWorkers <= numWorkers
  /\ Cardinality({k \in Ordinals : taskPc[k] = "post"}) <= numWorkers
  /\ \A k \in Ordinals : Running(k) /\ taskPc[k] # "wgdone" => HoldsSlot(k)

\* the scheduling task waits for a slot while WORKERS tasks hold theirs
C5_Witness ==
  /\ pc = "acquire" /\ concurrentWorkers = numWorkers
  /\ \E k \in Ordinals : taskPc[k] = "post"

\* the file task of f is in flight: spawned and its slot not yet released
InFlight(f) ==
  jobPc[f] \in {"open", "probe", "transfer", "commit", "delete", "returned",
                "release"}

\* the file job of f failed
Failed(f) == jobErr[f] = "error"

\* C6: the file jobs in flight are exactly those counted by the transfer
\* semaphore, at most TRANSFERS of them (so no two overlap when TRANSFERS is
\* 1); a task that is not spawned yet holds no slot, and neither does one
\* that has left, with or without an error.
C6_TransferBound ==
  /\ Cardinality({f \in Files : InFlight(f)}) = concurrentFiles
  /\ concurrentFiles <= numTransfers
  /\ numTransfers = 1 =>
       \A f, g \in Files : InFlight(f) /\ InFlight(g) => f = g
  /\ \A f \in Files : jobPc[f] \in {"wgdone", "exited"} => ~InFlight(f)

\* the walk waits for a slot while TRANSFERS jobs are in flight, after a
\* failed job gave its slot back
C6_Witness ==
  /\ walkPc = "acquire" /\ concurrentFiles = numTransfers
  /\ \E f \in Files : jobPc[f] = "exited" /\ Failed(f)

\* C7: an attempt of any of the seven server calls that ends with a
\* retryable status or transport error is followed by another attempt of the
\* same call, as long as the pacer's attempts last: no call returns on a
\* retryable answer before its last attempt.
C7_RetryableAnswerRetried ==
  callPc = "returned" /\ shouldRetry(lastAnswer) => made = LowLevelRetries

\* C8: when the attempt for some ordinal ended without a descriptor with a
\* nonzero part id, no commit POST and no DELETE is sent, the part is not
\* sent again, and the job returns "uploaded parts incomplete" with its bar
\* aborted.
C8_IncompleteFails ==
  (\E k \in Ordinals : AttemptOver(k) /\ ~Obtained(k)) =>
    /\ ~commitSent /\ ~deleteSent
    /\ \A k \in Ordinals : posts[k] <= 1
    /\ pc \in {"return", "done"} => result = "incomplete" /\ bar.exit

\* a part POST failed and the job returned incomplete
C8_Witness ==
  /\ pc = "done" /\ result = "incomplete"
  /\ \E k \in Ordinals : posts[k] = 1 /\ taskPc[k] = "exited" /\ ~Obtained(k)

\* C9: when the existence probe lists an item, the job returns success
\* without any part POST, resumable-state GET, commit POST or DELETE.
C9_ExistingFileSkipped ==
  probeItems =>
    /\ pc \in {"return", "done"} /\ result = "skipped"
    /\ \A k \in Ordinals : posts[k] = 0 /\ taskPc[k] = "idle"
    /\ ~resumeAsked /\ ~commitSent /\ ~deleteSent

\* the probe listed the file and the job returned
C9_Witness == probeItems /\ pc = "done" /\ fileSize > partSize

\* C10: in directory mode a failing file job does not end the process: it
\* goes on running, or ends for another reason than that job's failure.
C10_FailedJobKeepsProcess ==
  (\E f \in Files : Failed(f)) => process # "fatal_upload"

\* C11: when DELETE_AFTER_UPLOAD is set and the job of the single file given
\* as -path succeeded, the local file has been removed by the time the
\* command ends.
C11_UploadedFileRemoved ==
  (mainPc = "exited" /\ deleteAfterUpload /\ fileJob = "uploaded") =>
    localFile = "removed"

\* C12: a part POST answered 200 or 201 with a nonzero part id counts: when
\* every part task has ended with such a descriptor, the job does not fail
\* for incomplete parts, and a commit carries all of them.
C12_SuccessAnswersCount ==
  (pc \in {"return", "done"} /\
     \A k \in Ordinals : AttemptOver(k) /\ Obtained(k)) =>
    result # "incomplete"

\* C17: the command started without -path or without -dest exits with a
\* nonzero status and without a server call; it exits with status 0 only
\* when both flags were given.
C17_MissingFlagExitsNonzero ==
  /\ (mainPc = "exited" /\ (sourcePath = "" \/ destDir = "")) =>
       exitStatus # 0 /\ netCalls = 0
  /\ exitStatus = 0 => sourcePath # "" /\ destDir # ""

\* C18: the barrier task closes the descriptor channel only after every
\* part task of the job has been started and has exited, and no part task
\* is left to publish a descriptor on a channel that is already closed.
C18_CloseAfterAllTasks ==
  chanClosed =>
    /\ loopI = totalParts
    /\ \A k \in Ordinals : taskPc[k] = "exited"

\* C19: a file job that has opened its file returns: the process is not
\* ended by a panic of one of the job's tasks, and as long as the job has
\* not returned one of its tasks can take a step.
C19_JobReturns ==
  /\ crashed # "panic"
  /\ (Alive /\ pc # "done") => ENABLED Next

\* C20: the partName parameter of the POST for ordinal k is the name of
\* that part: with randomisation off <fileName>.part.<k as three digits> when
\* the file has several parts and the file name when it has one, with
\* randomisation on the UUID drawn for that part.
C20_PostCarriesOwnName ==
  \A k \in 1 .. nameTotal :
    sentName[k] # NoName => sentName[k] = PartName(k, <<"file">>)

C15_AllBytesReported ==
  (/\ progPc = "wait" /\ ~skipped
   /\ \A j \in 1 .. Len(jobs) : jobs[j].pc = "done" /\ jobs[j].err = "nil"
   /\ streak >= 1)
  => /\ state.uploadedBytes + state.existingBytes = state.totalSize
     /\ shown.stats[1] = shown.stats[2]

\* C16: two renders in a row with no bar increment, close, abort or
\* accounting call in between yield the same derived counters (uploaded,
\* uploadedBytes, error count) and the same rendered progress block.
C16_RenderIdempotent ==
  streak = 2 =>
    /\ shown.counters = prior.counters
    /\ shown.stats = prior.stats /\ shown.bars = prior.bars

\* C16, amended: two such renders yield the same derived counters, and the
\* same progress block but for the readings taken from the clock (each
\* shown bar's elapsed time and rate, the total rate of the statistics);
\* when the clock reads the same at both renders the whole block is the
\* same.
C16_RenderIdempotentButClock ==
  LET Timeless(lines) ==
        [i \in 1 .. Len(lines) |-> [lines[i] EXCEPT !.elapsed = 0, !.rate = 0]]
  IN  streak = 2 =>
        /\ shown.counters = prior.counters
        /\ [shown.stats EXCEPT ![3] = 0] = [prior.stats EXCEPT ![3] = 0]
        /\ Timeless(shown.bars) = Timeless(prior.bars)
        /\ shown.at = prior.at =>
              shown.stats = prior.stats /\ shown.bars = prior.bars

\* a second render in a row, at the same clock reading, over an aborted bar
\* and a bar that is shown
C16_Witness ==
  /\ streak = 2 /\ shown.at = prior.at
  /\ Len(shown.bars) > 0
  /\ \E j \in 1 .. Len(Bars) : jobs[Bars[j]].bar.exit
  /\ \E j \in 1 .. Len(Bars) :
       ~jobs[Bars[j]].bar.exit /\ ~jobs[Bars[j]].bar.completed

\* C21: a file job that failed (at the existence probe, with incomplete
\* parts, at the commit POST or at the resumable DELETE) leaves its bar
\* aborted, and a render counts as uploaded only bars of jobs that returned
\* without an error.
C21_FailedJobBarAborted ==
  /\ \A j \in 1 .. Len(jobs) :
       (jobs[j].pc = "done" /\ jobs[j].err = "error") => jobs[j].bar.exit
  /\ streak >= 1 =>
       state.uploaded <=
         Cardinality({j \in 1 .. Len(jobs) :
                        jobs[j].pc = "done" /\ jobs[j].err = "nil"})

\* C22: with deleteAfterUpload set, a local file is removed only if a commit
\* POST for that file succeeded during the run; a file whose job failed and
\* a file the existence probe found on the server stay on disk.
C22_RemovedOnlyAfterCommit ==
  \A f \in Files :
    "removed" \in jobLog[f] =>
      /\ deleteAfterUpload
      /\ jobErr[f] = "nil"
      /\ "committed" \in jobLog[f]

\* C23: when several file tasks call AddBar concurrently, every bar added is
\* in the aggregator's bars list exactly once afterwards: no registration is
\* lost.
C23_NoRegistrationLost ==
  \A t \in DOMAIN barOf :
    task[t].pc \notin {"addbar", "append"} =>
      Cardinality({i \in 1 .. Len(pBars) : pBars[i] = t}) = 1

\* C24: the counters a finished render displays count no bar twice: uploaded
\* is at most the number of completed bars that are not aborted, the error
\* count at most the number of aborted bars, and uploadedBytes at most the
\* bytes of all the bars.  (Bars only ever become completed or aborted and
\* their bytes only grow, so this is the half of the claimed equalities
\* that no timing of the bars' own updates can break.)
C24_RenderCountsEachBarOnce ==
  written.stats # <<>> =>
    LET bytes[n \in 0 .. Len(barOf)] ==
          IF n = 0 THEN 0 ELSE bytes[n - 1] + barOf[n].currentBytes
    IN  /\ written.stats[1] <=
             Cardinality({t \in DOMAIN barOf :
                            barOf[t].completed /\ ~barOf[t].exit})
        /\ written.stats[2] <= bytes[Len(barOf)]
        /\ written.stats[3] <=
             Cardinality({t \in DOMAIN barOf : barOf[t].exit})

\* C25: every repaint after the first erases as many lines as the repaint
\* immediately before it emitted, and at most one render at a time is
\* between reading the remembered line count and writing to the terminal.
C25_ErasesWhatWasEmitted ==
  /\ before > 0 => written.erased = before
  /\ Cardinality({t \in DOMAIN task : task[t].pc = "emit"}) <= 1

\* C26: once the pre-pass totals are in the aggregator, every render shows
\* uploaded + existing <= totalTransfers: no file is counted both as
\* uploaded and as existing.
C26_UploadedPlusExistingWithinTotal ==
  (streak >= 1 /\ progPc \in {"walk", "wait"}) =>
    /\ shown.stats[4] <= shown.stats[5]
    /\ state.uploaded + state.existing <= state.totalTransfers

\* C27: in every state of a file job (fresh parts, resumed parts whose size
\* is the server's record, failed part POSTs, the barrier's Finish) the
\* bar's currentBytes is at most its max, the file size.
C27_CurrentBytesWithinMax == bar.currentBytes <= fileSize

\* C28: within a file job each ordinal of 1..totalParts is handled by exactly
\* one part task: after i rounds of the loop the tasks started are those of
\* the ordinals 1..i, each started once, and at most one part POST is sent
\* per ordinal during the job.
C28_OneTaskAndOnePostPerOrdinal ==
  pc # "idle" =>
    \A k \in Ordinals :
      /\ posts[k] <= 1
      /\ (taskPc[k] # "idle") <=> (k <= loopI)
      /\ Len(barAdv[k]) <= 1

\* C28 witness: the job has started the tasks of at least two ordinals and
\* each of them sent its part POST
C28_Witness ==
  /\ totalParts >= 2 /\ loopI = totalParts
  /\ \A k \in Ordinals : posts[k] = 1 /\ taskPc[k] = "exited"

\* C29: for a file of S >= 1 bytes and a part size P, totalParts is
\* ceil(S / P); the task of ordinal k sends the range that starts at
\* (k - 1) * P with Content-Length min(P, S - (k - 1) * P), which is what
\* the descriptor of a posted part records; the ranges are non-empty and
\* pairwise disjoint and their lengths sum to S.
C29_PartRanges ==
  (pc # "idle" /\ fileSize >= 1) =>
    LET least(a, b) == IF a < b THEN a ELSE b
        sum[n \in 0 .. totalParts] ==
          IF n = 0 THEN 0 ELSE sum[n - 1] + ContentLength(n)
    IN  /\ totalParts = CeilDiv(fileSize, partSize)
        /\ sum[totalParts] = fileSize
        /\ \A k \in Ordinals :
             /\ PartStart(k) = (k - 1) * partSize
             /\ ContentLength(k) =
                  least(partSize, fileSize - (k - 1) * partSize)
             /\ ContentLength(k) >= 1
             /\ \A m \in Ordinals : k < m => PartEnd(k) <= PartStart(m)
             /\ taskPc[k] = "publish" =>
                  taskDesc[k].Size =
                    least(partSize, fileSize - (k - 1) * partSize)

\* C29 witness: a file whose size is not a multiple of the part size, with
\* the short last part posted and answered 201
C29_Witness ==
  /\ fileSize % partSize # 0 /\ totalParts >= 2
  /\ taskPc[totalParts] = "publish"
  /\ taskDesc[totalParts].Size = fileSize % partSize

C31_NoStateMeansEveryPartPosted ==
  (resumeAsked /\ (resumeErr \/ serverState = <<>>)) =>
    /\ pc = "prepare" => result = "running"
    /\ \A k \in Ordinals :
         /\ taskPc[k] \notin {"pubx", "incr"}
         /\ barAdv[k] = <<>>
         /\ taskPc[k] \in {"post", "publish"} => posts[k] = 1
         /\ Obtained(k) => posts[k] = 1

\* C31 witness: the server holds parts of the file, the GET for them failed,
\* and the job posted every ordinal and ended well
C31_Witness ==
  /\ resumeAsked /\ resumeErr /\ serverState # <<>>
  /\ totalParts >= 2
  /\ \A k \in Ordinals : posts[k] = 1
  /\ result = "ok"

\* C32: when the existence probe is answered 404 the file counts as absent:
\* the job does not fail, its bar is not aborted, and the job goes on to
\* the part upload.
C32_NotFoundMeansAbsent ==
  probeNotFound =>
    /\ result # "probe_error"
    /\ ~bar.exit
    /\ pc \in {"resume", "prepare", "loop", "acquire", "drain", "commit",
               "delete", "return", "done"}

\* C33: a failing part task does not cancel its siblings: the job fails as a
\* whole (for incomplete parts) only after the part task of every ordinal of
\* 1..totalParts has been started and has run to its end.
C33_JobFailsAfterEveryTaskEnded ==
  result = "incomplete" =>
    /\ loopI = totalParts
    /\ \A k \in Ordinals : taskPc[k] = "exited"

\* C34: an error on a single entry of the directory being walked is logged
\* and the walk goes on with the next entry: the walk ends with an error
\* only from its opening (reading the directory and its remote listing),
\* never from the visit of an entry.
C34_EntryErrorsDoNotEndWalk ==
  [][(walkPc # "error" /\ walkPc' = "error") => walkPc = "start"]_vars

\* C35: the entries of a subdirectory are visited, and file jobs for them
\* started, only after the remote mkdir of that subdirectory succeeded; when
\* the mkdir fails nothing under the subdirectory is visited or uploaded.
C35_MkdirBeforeEntries ==
  /\ \A i \in 1 .. Len(todo) :
       todo[i].inSub => todo[i].mkdir # NoAnswer /\ ~CallErr(todo[i].mkdir)
  /\ \A j \in 1 .. Len(jobs) :
       jobs[j].mkdir # NoAnswer => ~CallErr(jobs[j].mkdir)

\* C35 witness: a file of a subdirectory whose mkdir succeeded was uploaded,
\* after another subdirectory was passed over
C35_Witness ==
  /\ skipped
  /\ \E j \in 1 .. Len(jobs) :
       /\ jobs[j].mkdir # NoAnswer /\ ~CallErr(jobs[j].mkdir)
       /\ jobs[j].pc = "done" /\ jobs[j].err = "nil"

\* C36: when main has passed Progress.Wait, stopped the renderer and reported
\* completion, every file task the walk dispatched has ended, its transfer
\* slot released and its WaitGroup count given back: no file job is running
C36_CompleteOnlyAfterFileTasks ==
  process = "exited" =>
    /\ \A f \in Files : entries[f] = "new" => jobPc[f] = "exited"
    /\ \A f \in Files : entries[f] # "new" => jobPc[f] = "idle"
    /\ concurrentFiles = 0
    /\ uwgCount = 0

C36_Witness ==
  /\ process = "exited"
  /\ Cardinality({f \in Files : jobPc[f] = "exited"}) >= 2
  /\ \E f \in Files : jobErr[f] = "error"
  /\ \E f \in Files : jobErr[f] = "nil"

\* C37: the stop handle of StartProgress returns only after the render loop
\* task has exited (its trailing newline printed), and once the handle has
\* returned no render writes a repaint of the progress block to the terminal.
C37_NoRepaintAfterStop ==
  [][/\ (stopPc = "closed" /\ stopPc' = "returned") => task[0].pc = "exited"
     /\ stopPc \in {"returned", "logged"} =>
          \A t \in Renderers : ~(task[t].pc = "emit" /\ task'[t].pc # "emit")]_vars

\* C37, the state that refutes it: the handle has returned and a repaint by
\* main's own log line is about to be written
C37_RepaintAfterStop ==
  stopPc = "logged" /\ task[MainTask].pc = "emit"

\* C38: the descriptors in a file job's channel, together with the part
\* tasks about to publish one, never exceed totalParts, so a part task that
\* publishes on the open channel always finds room, also while the scheduling
\* loop waits for a worker slot and nothing drains the channel.
C38_PublishNeverBlocks ==
  /\ Len(uploadedParts)
       + Cardinality({k \in Ordinals : taskPc[k] \in {"pubx", "publish"}})
       <= totalParts
  /\ \A k \in Ordinals :
       (taskPc[k] \in {"pubx", "publish"} /\ ~chanClosed) =>
         Len(uploadedParts) < ChannelCap(totalParts)

C38_Witness ==
  /\ pc = "acquire" /\ concurrentWorkers = numWorkers
  /\ ~chanClosed
  /\ \E k \in Ordinals : taskPc[k] = "publish" /\ Obtained(k)

\* C39: a bar's flags completed, finished, exit and error are never cleared
\* once set: no operation on the bar (IncrInt64, Set64, Finish, Close, Abort,
\* ChangeMax64, Reset, a render) takes a set flag back.
C39_FlagsNeverCleared ==
  [][/\ barOf[1].completed => barOf'[1].completed
     /\ barOf[1].finished => barOf'[1].finished
     /\ barOf[1].exit => barOf'[1].exit
     /\ barOf[1].error => barOf'[1].error]_vars

====
